---- MODULE Spec2Model ----
(***************************************************************************)
(* A model of ssell/noisegen: the tiled worker engine                      *)
(* (noise_multithreaded.js, the worker entry points of noise.js and        *)
(* surface.js, noise_normalization.js, noise_progress.js) and the palette  *)
(* segment editor (UIMultiRange of ui_multirange.js).                      *)
(*                                                                         *)
(* The state machines of the module, each with its own specification:      *)
(*   Spec / FairSpec  one pass of the tiled engine after another           *)
(*   StepSpec         the passes with the steps handed to the workers      *)
(*   NormSpec         normalizeData applied to a raw field                 *)
(*   EditorSpec       splitSegment / removeSegment on a UIMultiRange       *)
(*   PaletteSpec      colour lookups in a ColorPalette                     *)
(*   PrngSpec         setSeed / nextUnbound of the generators of random.js *)
(*   NextSpec         Random.next(min, max) on one raw word                *)
(*   RandomSpec       NoiseRandom.setParams, then getPixelRaw calls        *)
(*   WorleySpec       NoiseWorley.getValue, query after query              *)
(*   TemplateSpec     applyPaletteString on a palette descriptor           *)
(*   TileSpec         the noise pass on a surface of any size              *)
(*   RangeSpec        a UIMultiRange built on any range [min, max]         *)
(*   DistanceSpec     resetDistances / insertDistance of a NoiseWorley     *)
(*   SearchSpec       one NoiseWorley.getValue call, pass by pass          *)
(* The variables of the machines a specification does not drive stay at    *)
(* their initial values.                                                   *)
(***************************************************************************)
EXTENDS Integers, Sequences, FiniteSets, TLC

(***************************************************************************)
(* IEEE-754 binary64 arithmetic, as far as normalizeData needs it.         *)
(* A non-negative double is a record: k is "zero", "num", "inf" or "nan";  *)
(* for "num", m = <<a2, a1, a0>> holds the 53-bit significand in limbs of  *)
(* 17, 18 and 18 bits (a2 >= 2^16: the leading bit is set) and e is the    *)
(* exponent of the leading bit, so the value is                            *)
(*     (a2 * 2^36 + a1 * 2^18 + a0) * 2^(e - 52).                          *)
(* Every operation rounds to nearest, ties to even, as the JavaScript      *)
(* number type does.  Operands of the code that are integers               *)
(* (raw[pos] - min, 1, 255) are passed as integers below 2^12.             *)
(***************************************************************************)
\* 2^n for n in 0..30
Pow2(n) ==
    <<1, 2, 4, 8, 16, 32, 64, 128,
      256, 512, 1024, 2048, 4096, 8192, 16384, 32768,
      65536, 131072, 262144, 524288, 1048576, 2097152, 4194304, 8388608,
      16777216, 33554432, 67108864, 134217728, 268435456, 536870912, 1073741824>>[n + 1]

Limb    == Pow2(18)
TopUnit == Pow2(16)     \* the leading bit of a2

FZero == [k |-> "zero", m |-> <<0, 0, 0>>, e |-> 0]
FInf  == [k |-> "inf",  m |-> <<0, 0, 0>>, e |-> 0]
FNaN  == [k |-> "nan",  m |-> <<0, 0, 0>>, e |-> 0]

\* The smallest t >= 0 with a * 2^t >= b.
RECURSIVE ShiftUp(_, _)
ShiftUp(a, b) == IF a >= b THEN 0 ELSE 1 + ShiftUp(2 * a, b)

\* The significand a2:a1:a0 plus one unit in the last place.
FIncrement(a2, a1, a0, e) ==
    IF a0 + 1 < Limb THEN [k |-> "num", m |-> <<a2, a1, a0 + 1>>, e |-> e]
    ELSE IF a1 + 1 < Limb THEN [k |-> "num", m |-> <<a2, a1 + 1, 0>>, e |-> e]
    ELSE IF a2 + 1 < 2 * TopUnit THEN [k |-> "num", m |-> <<a2 + 1, 0, 0>>, e |-> e]
    ELSE [k |-> "num", m |-> <<TopUnit, 0, 0>>, e |-> e + 1]

\* Round to nearest, ties to even: up says the dropped part is above half,
\* tie that it is exactly half.
FRound(a2, a1, a0, e, up, tie) ==
    IF up \/ (tie /\ a0 % 2 = 1)
    THEN FIncrement(a2, a1, a0, e)
    ELSE [k |-> "num", m |-> <<a2, a1, a0>>, e |-> e]

\* rem / den with den <= rem < 2 * den, as a significand with exponent e.
FQuotient(rem, den, e) ==
    LET a2 == (rem * TopUnit) \div den
        r2 == (rem * TopUnit) % den
        a1 == (r2 * Limb) \div den
        r1 == (r2 * Limb) % den
        a0 == (r1 * Limb) \div den
        r0 == (r1 * Limb) % den
    IN  FRound(a2, a1, a0, e, 2 * r0 > den, 2 * r0 = den)

\* a / b for integers a >= 0, b >= 0 (JavaScript: a / b on numbers).
FDiv(a, b) ==
    IF b = 0 THEN (IF a = 0 THEN FNaN ELSE FInf)
    ELSE IF a = 0 THEN FZero
    ELSE IF a >= b
    THEN LET t == ShiftUp(2 * b, a + 1)      \* b * 2^t <= a < b * 2^(t+1)
         IN  FQuotient(a, b * Pow2(t), t)
    ELSE LET t == ShiftUp(a, b)              \* a * 2^t >= b > a * 2^(t-1)
         IN  FQuotient(a * Pow2(t), b, 0 - t)

FromInt(n) == FDiv(n, 1)

\* n * f for an integer n >= 0 and a double f (JavaScript: n * f).
FMulInt(n, f) ==
    CASE f.k = "nan"  -> FNaN
      [] f.k = "inf"  -> IF n = 0 THEN FNaN ELSE FInf
      [] f.k = "zero" -> FZero
      [] OTHER ->
           IF n = 0 THEN FZero
           ELSE LET p0 == n * f.m[3]
                    p1 == n * f.m[2] + (p0 \div Limb)
                    p2 == n * f.m[1] + (p1 \div Limb)
                    r0 == p0 % Limb
                    r1 == p1 % Limb
                    s  == ShiftUp(2 * TopUnit, p2 + 1)   \* p2 has 17 + s bits
                    d  == Pow2(s)
                    a2 == p2 \div d
                    a1 == (r1 \div d) + (p2 % d) * (Limb \div d)
                    a0 == (r0 \div d) + (r1 % d) * (Limb \div d)
                    dropped == r0 % d
                IN  FRound(a2, a1, a0, f.e + s, 2 * dropped > d, 2 * dropped = d)

\* a < b on non-negative doubles; any comparison with NaN is false.
FLess(a, b) ==
    CASE a.k = "nan" \/ b.k = "nan" -> FALSE
      [] a.k = "inf"  -> FALSE
      [] b.k = "inf"  -> TRUE
      [] b.k = "zero" -> FALSE
      [] a.k = "zero" -> TRUE
      [] OTHER -> \/ a.e < b.e
                  \/ /\ a.e = b.e
                     /\ \/ a.m[1] < b.m[1]
                        \/ a.m[1] = b.m[1] /\ a.m[2] < b.m[2]
                        \/ a.m[1] = b.m[1] /\ a.m[2] = b.m[2] /\ a.m[3] < b.m[3]

FLe(a, b) == a.k # "nan" /\ b.k # "nan" /\ ~FLess(b, a)

\* What storing a double in a Uint8ClampedArray keeps: NaN is 0, the value
\* is clamped to [0, 255] and rounded to the nearest integer, ties to even.
ToUint8Clamp(f) ==
    CASE f.k = "nan"  -> 0
      [] f.k = "zero" -> 0
      [] f.k = "inf"  -> 255
      [] OTHER ->
           IF f.e >= 8 THEN 255
           ELSE IF f.e < -1 THEN 0
           ELSE IF f.e = -1
           THEN (IF f.m = <<TopUnit, 0, 0>> THEN 0 ELSE 1)
           ELSE LET unit == Pow2(16 - f.e)
                    int  == f.m[1] \div unit
                    frac == f.m[1] % unit
                    low  == f.m[2] # 0 \/ f.m[3] # 0
                    up   == 2 * frac > unit \/ (2 * frac = unit /\ low)
                    tie  == 2 * frac = unit /\ ~low
                    near == IF up \/ (tie /\ int % 2 = 1) THEN int + 1 ELSE int
                IN  IF near > 255 THEN 255 ELSE near

(***************************************************************************)
(* The same arithmetic for lerp of surface.js, where doubles are added and *)
(* subtracted.  A non-negative double below 2^14 that is a multiple of     *)
(* 2^-61 is the integer value * 2^61, held in five limbs of 15 bits, least *)
(* significant first.  With starts, colours and values that are bytes,     *)
(* every number lerp meets is such a multiple.                             *)
(***************************************************************************)
Base == Pow2(15)

BigOne == <<0, 0, 0, 0, 2>>          \* 1.0

\* Limbs brought back into 0..Base-1 after a limbwise operation.
BigCarry(x) ==
    LET c2 == x[2] + (x[1] \div Base)
        c3 == x[3] + (c2 \div Base)
        c4 == x[4] + (c3 \div Base)
        c5 == x[5] + (c4 \div Base)
    IN  <<x[1] % Base, c2 % Base, c3 % Base, c4 % Base, c5>>

BigAdd(x, y) ==
    BigCarry(<<x[1] + y[1], x[2] + y[2], x[3] + y[3], x[4] + y[4], x[5] + y[5]>>)

\* x - y for x >= y
BigSub(x, y) ==
    BigCarry(<<x[1] - y[1], x[2] - y[2], x[3] - y[3], x[4] - y[4], x[5] - y[5]>>)

\* n * x for an integer 0 <= n < 2^16
BigMulSmall(n, x) ==
    BigCarry(<<n * x[1], n * x[2], n * x[3], n * x[4], n * x[5]>>)

BigHalf(x) ==
    LET top == Base \div 2
    IN  <<(x[1] \div 2) + (x[2] % 2) * top, (x[2] \div 2) + (x[3] % 2) * top,
          (x[3] \div 2) + (x[4] % 2) * top, (x[4] \div 2) + (x[5] % 2) * top,
          x[5] \div 2>>

\* The arguments of a recursive call are bound as  v \in {e}, which
\* evaluates e once; CHOOSE picks the one element of the set.
RECURSIVE BigShiftLeft(_, _)
BigShiftLeft(x, n) ==
    IF n = 0 THEN x
    ELSE (CHOOSE only \in {BigShiftLeft(twice[1], twice[2]) :
              twice \in {<<BigMulSmall(2, x), n - 1>>}} : TRUE)

\* floor(x / q) and x mod q for an integer 0 < q < 2^16
BigDivSmall(x, q) ==
    LET r5 == x[5] % q
        n4 == r5 * Base + x[4]
        r4 == n4 % q
        n3 == r4 * Base + x[3]
        r3 == n3 % q
        n2 == r3 * Base + x[2]
        r2 == n2 % q
        n1 == r2 * Base + x[1]
    IN  [quot |-> <<n1 \div q, n2 \div q, n3 \div q, n4 \div q, x[5] \div q>>,
         rem  |-> n1 % q]

\* x has more than 53 bits.
BigWide(x) == x[5] # 0 \/ x[4] >= Pow2(8)

\* The double nearest to x (ties to even): bits are dropped from the low
\* end until 53 are left; guard is the last bit dropped, sticky says a
\* lower one was set.
RECURSIVE BigRound(_, _, _, _)
BigRound(x, guard, sticky, dropped) ==
    IF BigWide(x)
    THEN (CHOOSE only \in {BigRound(half[1], half[2], half[3], half[4]) :
              half \in {<<BigHalf(x), x[1] % 2 = 1, sticky \/ guard,
                          dropped + 1>>}} : TRUE)
    ELSE (CHOOSE only \in {BigShiftLeft(kept, dropped) :
              kept \in {IF guard /\ (sticky \/ x[1] % 2 = 1)
                         THEN BigAdd(x, <<1, 0, 0, 0, 0>>) ELSE x}} : TRUE)

BigFromInt(n) == BigMulSmall(n, BigOne)

\* a / b on numbers, for integers 0 <= a <= b, 0 < b < 2^8
BigDiv(a, b) ==
    LET d == BigDivSmall(BigFromInt(a), b)
    IN  BigRound(d.quot, FALSE, d.rem # 0, 0)

\* Math.trunc
BigTrunc(x) == x[5] \div 2

\* lerp(from, to, frac): (from * (1.0 - frac)) + (to * frac), every
\* operation rounded.
lerp(from, to, frac) ==
    LET rest  == BigRound(BigSub(BigOne, frac), FALSE, FALSE, 0)
        left  == BigRound(BigMulSmall(from, rest), FALSE, FALSE, 0)
        right == BigRound(BigMulSmall(to, frac), FALSE, FALSE, 0)
    IN  BigRound(BigAdd(left, right), FALSE, FALSE, 0)

\* A variant: the channels rounded up instead of truncated.
lerpColorCeil(r0, g0, b0, r1, g1, b1, frac) ==
    <<BigTrunc(lerp(r0, r1, frac)) + 1, BigTrunc(lerp(g0, g1, frac)) + 1,
      BigTrunc(lerp(b0, b1, frac)) + 1>>

\* lerpColorRGB
lerpColorRGB(r0, g0, b0, r1, g1, b1, frac) ==
    <<BigTrunc(lerp(r0, r1, frac)), BigTrunc(lerp(g0, g1, frac)),
      BigTrunc(lerp(b0, b1, frac))>>

(***************************************************************************)
(* noise_normalization.js                                                  *)
(***************************************************************************)

\* A hole of an Array (new Array(length)) and a field a message does not
\* carry read as undefined; raw values are non-negative integers here.
Undefined == 0 - 1

\* The numbers of the array: a comparison with undefined is false, so the
\* min and max loops pass over the holes.
Numbers(raw) == {raw[pos] : pos \in 1..Len(raw)} \ {Undefined}

\* The loop  if(min > raw[pos]) min = raw[pos]  from min = Infinity.
ArrayMin(raw) ==
    IF Numbers(raw) = {} THEN Undefined
    ELSE CHOOSE v \in Numbers(raw) : \A u \in Numbers(raw) : v <= u

\* The loop  if(max < raw[pos]) max = raw[pos]  from max = -Infinity.
ArrayMax(raw) ==
    IF Numbers(raw) = {} THEN Undefined
    ELSE CHOOSE v \in Numbers(raw) : \A u \in Numbers(raw) : v >= u

\* normalizeData(raw) on an array with at least one number in it: the
\* global min and max, range = max - min, rangeReciprocal = 1 / range, and
\* every entry replaced by ((raw[pos] - min) * rangeReciprocal) * 255.
\* An undefined entry takes no part in min and max and becomes NaN.
normalizeData(raw) ==
    LET min == ArrayMin(raw)
        max == ArrayMax(raw)
        range == max - min
        rangeReciprocal == FDiv(1, range)
    IN  [pos \in 1..Len(raw) |->
            IF raw[pos] = Undefined THEN FNaN
            ELSE FMulInt(255, FMulInt(raw[pos] - min, rangeReciprocal))]

\* rawToImage(raw, image): every pixel of the image becomes the grey
\* (raw, raw, raw, 255), stored in the image's Uint8ClampedArray.
rawToImage(raw, image) ==
    [i \in DOMAIN image |->
        LET v == ToUint8Clamp(raw[i + 1]) IN <<v, v, v, 255>>]

(***************************************************************************)
(* surface.js: Palette                                                     *)
(* A descriptor is a sequence of segments [start, r, g, b, mode].  The     *)
(* Starts, colours and values are bytes.                                    *)
(***************************************************************************)

RECURSIVE InsertByStart(_, _)
InsertByStart(sorted, seg) ==
    IF sorted = <<>> THEN <<seg>>
    ELSE IF sorted[Len(sorted)].start <= seg.start THEN Append(sorted, seg)
    ELSE Append(InsertByStart(SubSeq(sorted, 1, Len(sorted) - 1), seg),
                sorted[Len(sorted)])

\* Palette.build: the segments of the descriptor, sorted by start.
RECURSIVE build(_)
build(descriptor) ==
    IF descriptor = <<>> THEN <<>>
    ELSE InsertByStart(build(SubSeq(descriptor, 1, Len(descriptor) - 1)),
                       descriptor[Len(descriptor)])

\* Palette.findSegment: the scan stops at the first segment whose start is
\* not below the value.  The index is zero-based, as in the code.
RECURSIVE findSegmentFrom(_, _, _, _)
findSegmentFrom(segments, value, i, index) ==
    IF i >= Len(segments) THEN index
    ELSE IF segments[i + 1].start < value
         THEN findSegmentFrom(segments, value, i + 1, i)
         ELSE index

findSegment(segments, value) == findSegmentFrom(segments, value, 0, 0)

\* Palette.transform for the modes "Solid", "Smooth RGB" and "None" of the
\* segment editor.  Where the code reads mode.includes("smooth") and
\* mode.includes("rgb") of the lower-cased mode, the model compares with
\* "Smooth RGB".  A mode that is neither (as "None") leaves r = g = b =
\* value.
transform(segments, value) ==
    LET segmentIndex == findSegment(segments, value)
    IN  IF segmentIndex < Len(segments)
        THEN LET left == segments[segmentIndex + 1]
             IN  CASE left.mode = "Solid" -> <<left.r, left.g, left.b>>
                   [] left.mode = "Smooth RGB" ->
                        IF segmentIndex < Len(segments) - 1
                        THEN LET right == segments[segmentIndex + 2]
                                 frac  == BigDiv(value - left.start,
                                                 right.start - left.start)
                             IN  lerpColorRGB(left.r, left.g, left.b,
                                              right.r, right.g, right.b, frac)
                        ELSE <<left.r, left.g, left.b>>
                   [] OTHER -> <<value, value, value>>
        ELSE <<value, value, value>>

(***************************************************************************)
(* The tiled engine: noise_multithreaded.js, the worker entry points of    *)
(* noise.js and surface.js, noise_progress.js, and generateStart /         *)
(* applyColorPropertiesStart of noisegen.js.                               *)
(***************************************************************************)

\* generateNoiseMultithreaded(..., 2, ...) and applyPaletteMultithreaded(.., 2, ..)
NumWorkersSide == 2
\* A tile is at most MaxStep pixels wide and high.
MaxStep == 2

NumWorkers == NumWorkersSide * NumWorkersSide
WorkerIds  == 0..(NumWorkers - 1)

\* The noise algorithm of the model stands for createNoise(name): a noise is
\* a deterministic function of the position, as Perlin, Simplex and Worley
\* are.
NoiseNames == {"coord"}

getPixelRaw(noise, x, y) == (3 * x + 5 * y) % 11

getPixel(noise, x, y) == (40 * x + 90 * y + 5) % 256

\* The palette descriptors of the model.
Palettes == {
    << [start |-> 0, r |-> 10, g |-> 20, b |-> 30, mode |-> "Solid"],
       [start |-> 50, r |-> 200, g |-> 100, b |-> 0, mode |-> "Solid"] >>,
    << [start |-> 100, r |-> 1, g |-> 2, b |-> 3, mode |-> "Solid"],
       [start |-> 0, r |-> 9, g |-> 9, b |-> 9, mode |-> "None"] >> }

VARIABLES
    width, height,      \* Surface.width, Surface.height
    canvas,             \* the pixels of the canvas context
    rawImageData,       \* Surface.rawImageData
    progress,           \* NoiseProgressBar.current (total only scales the bar)
    pass,               \* the running pass: [kind, noise, palette], kind "none" before the first
    running,            \* a pass is under way: the buttons are disabled
    workers,            \* per worker: [state, bounds, data, src], the message it was posted
    chan,               \* per worker: the messages posted and not yet handled
    numWorkersComplete, \* the handlers' completion counter
    rawData,            \* triggerNormalizedWorkers' rawData
    normWorker,         \* the normalization worker: [state, raw, image]
    endCalls,           \* calls of endCallback in this pass
    terminalsHandled,   \* history: workers whose terminal message was handled
    field, normalized,  \* normalizeData: the array before and after the call
    thumbs, segments,   \* UIMultiRange.thumbs, UIMultiRange.segments
    lastCall,           \* history: the last editor call, [op, refused]
    peak,               \* history: the most segments the editor has had
    paletteSegments,    \* Palette.segments
    shown,              \* the last Palette.transform call: [value, index, colour]
    firstNone,          \* history: the first colour returned for a segment of mode None
    prng,               \* a generator: [kind, seed, state, index, xor]
    twin,               \* a generator of the same kind, constructed when prng was last seeded
    drawn, twinDrawn,   \* what nextUnbound returned since then, for prng and for twin
    rawWord,            \* Random.next: what nextUnbound returns
    nextRange,          \* Random.next: [min, max]
    nextResult,         \* Random.next: the value returned, <<>> before the call
    worley,             \* a NoiseWorley instance
    asked,              \* the getValue calls it has answered: point and value
    freshValue,         \* per point, the value a new instance returns
    template,           \* the last applyPaletteString call: descriptor and outcome
    tileSurface,        \* a surface of any size: [width, height, canvas], canvas by byte
    tileWorkers,        \* its workers: [state, bounds, image]
    editorRange,        \* an editor built on any range: [min, max]
    inserted,           \* the distances inserted since resetDistances
    search,             \* one getValue call under way: the instance and the loop's position
    randomNoise         \* a NoiseRandom: the instance, the params it was set and the pixels drawn

vars == <<width, height, canvas, rawImageData, progress, pass, running,
          workers, chan, numWorkersComplete, rawData, normWorker,
          endCalls, terminalsHandled, field, normalized, thumbs, segments,
          lastCall, peak, paletteSegments, shown, firstNone,
          prng, twin, drawn, twinDrawn, rawWord, nextRange, nextResult,
          worley, asked, freshValue, template, tileSurface, tileWorkers,
          editorRange, inserted, search, randomNoise>>

normVars    == <<field, normalized>>
editorVars  == <<thumbs, segments, lastCall, peak>>
paletteVars == <<paletteSegments, shown, firstNone>>
prngVars    == <<prng, twin, drawn, twinDrawn>>
nextVars    == <<rawWord, nextRange, nextResult>>
worleyVars  == <<worley, asked, freshValue>>
templateVars == <<template>>
tileVars    == <<tileSurface, tileWorkers>>
rangeVars   == <<editorRange>>
distanceVars == <<inserted>>
searchVars  == <<search>>
randomVars  == <<randomNoise>>

engineVars == <<width, height, canvas, rawImageData, progress, pass, running,
                workers, chan, numWorkersComplete, rawData, normWorker,
                endCalls, terminalsHandled>>

\* What a step of one machine leaves alone: the other machines.
unitVars   ==
    <<paletteVars, prngVars, nextVars, worleyVars, templateVars, tileVars, rangeVars,
      distanceVars, searchVars, randomVars>>
offEngine  == <<normVars, editorVars, unitVars>>
offNorm    == <<engineVars, editorVars, unitVars>>
offEditor  == <<engineVars, normVars, unitVars>>
mainVars   == <<engineVars, normVars, editorVars>>
offPalette == <<mainVars, prngVars, nextVars, worleyVars, templateVars, tileVars, rangeVars,
      distanceVars, searchVars, randomVars>>
offPrng    == <<mainVars, paletteVars, nextVars, worleyVars, templateVars, tileVars, rangeVars,
      distanceVars, searchVars, randomVars>>
offNext    == <<mainVars, paletteVars, prngVars, worleyVars, templateVars, tileVars, rangeVars,
      distanceVars, searchVars, randomVars>>
offWorley  == <<mainVars, paletteVars, prngVars, nextVars, templateVars, tileVars, rangeVars,
      distanceVars, searchVars, randomVars>>
offTemplate ==
    <<engineVars, normVars, paletteVars, prngVars, nextVars, worleyVars, tileVars, rangeVars,
      distanceVars, searchVars, randomVars>>
offTile    ==
    <<mainVars, paletteVars, prngVars, nextVars, worleyVars, templateVars,
      rangeVars, distanceVars, searchVars, randomVars>>

PixelIds == 0..(width * height - 1)

\* context.createImageData: transparent black.
createImageData(w, h) == [i \in 0..(w * h - 1) |-> <<0, 0, 0, 0>>]

\* A variant: tiles one pixel wider than the step.
TileBoundsOverlap(x, y, widthStep, heightStep) ==
    [startX |-> x * widthStep, endX |-> (x + 1) * widthStep + 1,
     startY |-> y * heightStep, endY |-> (y + 1) * heightStep]

\* The bounds of tile (x, y): the body of the dispatch loops.
TileBounds(x, y, widthStep, heightStep) ==
    [startX |-> x * widthStep, endX |-> (x + 1) * widthStep,
     startY |-> y * heightStep, endY |-> (y + 1) * heightStep]

\* index = (x * numWorkersSide) + y
TileOf(index, widthStep, heightStep) ==
    TileBounds(index \div NumWorkersSide, index % NumWorkersSide,
               widthStep, heightStep)

\* The positions the loops  for x in [startX, endX)  for y in [startY, endY)
\* visit that land on array index i = (y * w) + x; the last one visited is
\* the one whose value stays.
Visits(b, w, i) ==
    {c \in (b.startX..(b.endX - 1)) \X (b.startY..(b.endY - 1)) :
        c[2] * w + c[1] = i}

LastVisits(b, w, i) ==
    {c \in Visits(b, w, i) :
        \A d \in Visits(b, w, i) : d[1] < c[1] \/ (d[1] = c[1] /\ d[2] <= c[2])}

\* The one element of a set of one element.
The(S) == CHOOSE v \in S : TRUE

\* Noise.setPixelUniform
setPixelUniform(color) == <<color, color, color, 255>>

\* Noise.generate: setPixelUniform of getPixel on every position of the tile.
generate(imageData, noise, w, b) ==
    [i \in DOMAIN imageData |->
        The({setPixelUniform(getPixel(noise, c[1], c[2])) :
                c \in LastVisits(b, w, i)}
            \cup {imageData[j] : j \in {k \in {i} : Visits(b, w, k) = {}}})]

\* Noise.generateRaw: setRaw of getPixelRaw on every position of the tile.
\* Arrays are sequences: index i of the code is position i + 1.
generateRaw(raw, noise, w, b) ==
    [p \in 1..Len(raw) |->
        The({getPixelRaw(noise, c[1], c[2]) : c \in LastVisits(b, w, p - 1)}
            \cup {raw[q] : q \in {k \in {p} : Visits(b, w, k - 1) = {}}})]

\* The palette worker's pixel: (color.r, color.g, color.b, 255).
paletteColor(color) == <<color[1], color[2], color[3], 255>>

\* The palette worker's loops: destImage gets transform(srcImage.data[index]).
applyPaletteTile(srcImage, destImage, descr, w, b) ==
    [i \in DOMAIN destImage |->
        The({paletteColor(transform(build(descr), srcImage[c[2] * w + c[1]][1])) :
                c \in LastVisits(b, w, i)}
            \cup {destImage[j] : j \in {k \in {i} : Visits(b, w, k) = {}}})]

\* The messages a worker posts.  terminal is history: it says what the
\* worker meant, and no handler reads it.  A progress message has no image
\* and no rawData: data is <<>>, which no image or array of a surface is.
ProgressMessage(progressStep) ==
    [progress |-> progressStep, data |-> <<>>, startX |-> Undefined,
     endX |-> Undefined, startY |-> Undefined, endY |-> Undefined,
     terminal |-> FALSE]

TerminalMessage(data, b) ==
    [progress |-> Undefined, data |-> data, startX |-> b.startX,
     endX |-> b.endX, startY |-> b.startY, endY |-> b.endY,
     terminal |-> TRUE]

\* A variant: one progress message per row of the tile.
ProgressPerRow(b) ==
    [k \in 1..(b.endY - b.startY) |-> ProgressMessage(b.endY - b.startY)]

\* A variant: the increment taken from the width of the tile.
ProgressOfWidth(b) ==
    [k \in 1..(b.endX - b.startX) |-> ProgressMessage(b.endX - b.startX)]

\* progressStep = (endY - startY), posted once per column x of the tile.
ProgressMessages(b) ==
    [k \in 1..(IF b.endX > b.startX THEN b.endX - b.startX ELSE 0) |->
        ProgressMessage(b.endY - b.startY)]

\* What a worker posts for its task: the progress messages of the loops,
\* then the message with the filled buffer and the bounds it was given.
WorkerMessages(kind, noise, descr, task, w) ==
    LET b == task.bounds
        filled == CASE kind = "noise"      -> generate(task.data, noise, w, b)
                    [] kind = "normalized" -> generateRaw(task.data, noise, w, b)
                    [] OTHER -> applyPaletteTile(task.src, task.data, descr, w, b)
    IN  ProgressMessages(b) \o <<TerminalMessage(filled, b)>>

\* if(e.data.progress)
Truthy(v) == v # Undefined /\ v # 0

\* NoiseProgressBar.update
ProgressUpdate(p, increment) == [p EXCEPT !.current = p.current + increment]

\* A variant: the whole image drawn, whatever the rectangle.
drawImageWhole(cv, data, w, startX, endX, startY, endY) == data

\* Surface.drawImageRect: putImageData with the dirty rectangle
\* (startX, startY, endX - startX, endY - startY).
drawImageRect(cv, data, w, startX, endX, startY, endY) ==
    [i \in DOMAIN cv |->
        IF /\ startX <= i % w /\ i % w < endX
           /\ startY <= i \div w /\ i \div w < endY
        THEN data[i] ELSE cv[i]]

\* A variant: the raw image read back from the canvas after the draw.
rawReadBack(raw, cv) == cv

\* this.rawImageData after Surface.drawImageRect, which draws on the
\* context and assigns nothing.
rawAfterDrawRect(raw, cv) == raw

\* putRawData: destRaw[index] = sourceRaw[index] on the tile.
putRawData(sourceRaw, destRaw, w, startX, endX, startY, endY) ==
    LET b == [startX |-> startX, endX |-> endX, startY |-> startY, endY |-> endY]
    IN  [p \in 1..Len(destRaw) |->
            IF Visits(b, w, p - 1) = {} THEN destRaw[p] ELSE sourceRaw[p]]

\* A variant: the handlers waiting for one completion more than there are workers.
AllCompleteLate(count) == count = NumWorkersSide * NumWorkersSide + 1

\* A variant: the handlers done after one row of the grid.
AllCompleteEarly(count) == count = NumWorkersSide

\* numWorkersComplete == numWorkers
AllComplete(count) == count = NumWorkersSide * NumWorkersSide

NoBounds == [startX |-> Undefined, endX |-> Undefined,
             startY |-> Undefined, endY |-> Undefined]

IdleWorkers ==
    [i \in WorkerIds |->
        [state |-> "none", bounds |-> NoBounds, data |-> <<>>, src |-> <<>>]]
NoMessages  == [i \in WorkerIds |-> <<>>]
NoNormWorker == [state |-> "none", raw |-> <<>>, image |-> <<>>]

\* destroyWorkers(workers): terminate() ends the worker and drops what it
\* has not delivered.
DestroyedWorkers ==
    [i \in WorkerIds |->
        [state |-> "terminated", bounds |-> NoBounds, data |-> <<>>, src |-> <<>>]]

EngineInit ==
    /\ \E widthStep \in 1..MaxStep, heightStep \in 1..MaxStep :
          /\ width = NumWorkersSide * widthStep
          /\ height = NumWorkersSide * heightStep
    /\ canvas = [i \in PixelIds |-> <<51, 51, 51, 255>>]
    /\ rawImageData = createImageData(width, height)
    /\ progress = [current |-> 0]
    /\ pass = [kind |-> "none", noise |-> "", palette |-> <<>>]
    /\ running = FALSE
    /\ workers = IdleWorkers
    /\ chan = NoMessages
    /\ numWorkersComplete = 0
    /\ rawData = <<>>
    /\ normWorker = NoNormWorker
    /\ endCalls = 0
    /\ terminalsHandled = {}

\* The state the other machines stay in while one of them runs.
NormIdle   == field = <<>> /\ normalized = <<>>
NoCall == [op |-> "none", refused |-> FALSE]

EditorIdle ==
    thumbs = <<>> /\ segments = <<>> /\ lastCall = NoCall /\ peak = 0

NoLookup == [value |-> Undefined, index |-> Undefined, colour |-> <<>>]

PaletteIdle == paletteSegments = <<>> /\ shown = NoLookup /\ firstNone = <<>>

PrngIdle == prng = <<>> /\ twin = <<>> /\ drawn = <<>> /\ twinDrawn = <<>>

NextIdle == rawWord = <<>> /\ nextRange = <<>> /\ nextResult = <<>>

WorleyIdle == worley = <<>> /\ asked = <<>> /\ freshValue = <<>>

NoTemplate == [descriptor |-> <<>>, border |-> "", before |-> <<>>]

TemplateIdle == template = NoTemplate

TileIdle == tileSurface = <<>> /\ tileWorkers = <<>>

RangeIdle == editorRange = <<>>

DistanceIdle == inserted = <<>>

SearchIdle == search = <<>>

RandomIdle == randomNoise = <<>>

\* The machines that check one class each.
UnitIdle ==
    /\ PaletteIdle /\ PrngIdle /\ NextIdle /\ WorleyIdle /\ TemplateIdle
    /\ TileIdle
    /\ RangeIdle
    /\ DistanceIdle
    /\ SearchIdle
    /\ RandomIdle

EngineIdle ==
    /\ width = 0 /\ height = 0 /\ canvas = <<>> /\ rawImageData = <<>>
    /\ progress = [current |-> 0]
    /\ pass = [kind |-> "none", noise |-> "", palette |-> <<>>]
    /\ running = FALSE /\ workers = IdleWorkers /\ chan = NoMessages
    /\ numWorkersComplete = 0 /\ rawData = <<>> /\ normWorker = NoNormWorker
    /\ endCalls = 0 /\ terminalsHandled = {}

MainIdle == EngineIdle /\ NormIdle /\ EditorIdle

Init == EngineInit /\ NormIdle /\ EditorIdle /\ UnitIdle

\* Surface.clear(51, 51, 51) on the whole canvas.
clear(w, h, r, g, b) == [i \in 0..(w * h - 1) |-> <<r, g, b, 255>>]

\* new Array(length)
NewArray(length) == [p \in 1..length |-> Undefined]

\* generateStart: NoiseProgressBar.start(gSurface.size()), the buttons
\* toggled, updateDimensions (the entered size rounded down to even, resize,
\* clear), then generateNoiseMultithreaded(gSurface, noise, normalized,
\* params, 2, generateStop) and the dispatch loops of triggerNoiseWorkers or
\* triggerNormalizedWorkers.  The sizes are even, so width / numWorkersSide
\* is the integer widthStep.
GenerateStart(noise, isNormalized, widthStep, heightStep) ==
    LET w == NumWorkersSide * widthStep
        h == NumWorkersSide * heightStep
        image == IF w # width \/ h # height
                 THEN createImageData(w, h) ELSE rawImageData
    IN  /\ ~running
        /\ progress' = [current |-> 0]
        /\ running' = TRUE
        /\ width' = w
        /\ height' = h
        /\ rawImageData' = image
        /\ canvas' = clear(w, h, 51, 51, 51)
        /\ pass' = [kind |-> IF isNormalized THEN "normalized" ELSE "noise",
                    noise |-> noise, palette |-> <<>>]
        /\ numWorkersComplete' = 0
        /\ rawData' = IF isNormalized THEN NewArray(w * h) ELSE <<>>
        /\ workers' = [i \in WorkerIds |->
              [state |-> "posted",
               bounds |-> TileOf(i, w \div NumWorkersSide, h \div NumWorkersSide),
               data |-> IF isNormalized THEN NewArray(w * h) ELSE image,
               src |-> <<>>]]
        /\ chan' = NoMessages
        /\ normWorker' = NoNormWorker
        /\ endCalls' = 0
        /\ terminalsHandled' = {}
        /\ UNCHANGED offEngine

\* applyColorPropertiesStart: setPalette, NoiseProgressBar.start, the buttons
\* toggled, then applyPaletteMultithreaded(gSurface, 2,
\* applyColorPropertiesStop) and its dispatch loop.
ApplyPaletteStart(descriptor) ==
    /\ ~running
    /\ progress' = [current |-> 0]
    /\ running' = TRUE
    /\ pass' = [kind |-> "palette", noise |-> "", palette |-> descriptor]
    /\ numWorkersComplete' = 0
    /\ workers' = [i \in WorkerIds |->
          [state |-> "posted",
           bounds |-> TileOf(i, width \div NumWorkersSide,
                             height \div NumWorkersSide),
           data |-> createImageData(width, height),
           src |-> rawImageData]]
    /\ chan' = NoMessages
    /\ rawData' = <<>>
    /\ normWorker' = NoNormWorker
    /\ endCalls' = 0
    /\ terminalsHandled' = {}
    /\ UNCHANGED <<width, height, canvas, rawImageData, offEngine>>

\* self.onmessage of noise.js and of surface.js: the worker runs its loops
\* on the message it was posted and posts its messages, in order.
WorkerRun(i) ==
    /\ workers[i].state = "posted"
    /\ workers' = [workers EXCEPT ![i].state = "done",
                                  ![i].data = <<>>, ![i].src = <<>>]
    /\ chan' = [chan EXCEPT ![i] =
          WorkerMessages(pass.kind, pass.noise, pass.palette, workers[i], width)]
    /\ UNCHANGED <<width, height, canvas, rawImageData, progress, pass,
                   running, numWorkersComplete, rawData, normWorker, endCalls,
                   terminalsHandled, offEngine>>

\* workers[index].onmessage of triggerNoiseWorkers, triggerNormalizedWorkers
\* and applyPaletteMultithreaded, on the oldest message of worker i.
\* endCallback is generateStop or applyColorPropertiesStop: the buttons are
\* enabled again.  NoiseProgressBar.setTitle changes a title only.
OnWorkerMessage(i) ==
    /\ workers[i].state # "terminated"
    /\ chan[i] # <<>>
    /\ LET msg == Head(chan[i])
           count == numWorkersComplete + 1
       IN  /\ terminalsHandled' =
                 IF msg.terminal THEN terminalsHandled \cup {i}
                 ELSE terminalsHandled
           /\ IF Truthy(msg.progress)
              THEN /\ progress' = ProgressUpdate(progress, msg.progress)
                   /\ chan' = [chan EXCEPT ![i] = Tail(chan[i])]
                   /\ UNCHANGED <<canvas, rawImageData, running, workers,
                                  numWorkersComplete, rawData, normWorker,
                                  endCalls>>
              ELSE IF pass.kind = "normalized"
              THEN /\ numWorkersComplete' = count
                   /\ chan' = [chan EXCEPT ![i] = Tail(chan[i])]
                   /\ rawData' = putRawData(msg.data, rawData, width,
                          msg.startX, msg.endX, msg.startY, msg.endY)
                   /\ normWorker' =
                         IF AllComplete(count)
                         THEN [state |-> "posted", raw |-> rawData',
                               image |-> rawImageData]
                         ELSE normWorker
                   /\ UNCHANGED <<canvas, rawImageData, running, workers,
                                  progress, endCalls>>
              ELSE IF msg.data = <<>>
              THEN \* drawImageRect(undefined, ...): putImageData throws a
                   \* TypeError and the handler ends there.
                   /\ chan' = [chan EXCEPT ![i] = Tail(chan[i])]
                   /\ UNCHANGED <<canvas, rawImageData, running, workers,
                                  progress, numWorkersComplete, rawData,
                                  normWorker, endCalls>>
              ELSE /\ numWorkersComplete' = count
                   /\ IF AllComplete(count)
                      THEN /\ endCalls' = endCalls + 1
                           /\ running' = FALSE
                           /\ workers' = DestroyedWorkers
                           /\ chan' = NoMessages
                           /\ canvas' = drawImageRect(canvas, msg.data, width,
                                 msg.startX, msg.endX, msg.startY, msg.endY)
                           /\ rawImageData' =
                                 IF pass.kind = "noise" THEN canvas'
                                 ELSE rawAfterDrawRect(rawImageData, canvas')
                      ELSE /\ chan' = [chan EXCEPT ![i] = Tail(chan[i])]
                           /\ canvas' = drawImageRect(canvas, msg.data, width,
                                 msg.startX, msg.endX, msg.startY, msg.endY)
                           /\ rawImageData' =
                                 rawAfterDrawRect(rawImageData, canvas')
                           /\ UNCHANGED <<workers, endCalls, running>>
                   /\ UNCHANGED <<progress, rawData, normWorker>>
    /\ UNCHANGED <<width, height, pass, offEngine>>

\* self.onmessage of noise_normalization.js.
NormWorkerRun ==
    /\ normWorker.state = "posted"
    /\ normWorker' = [state |-> "replied", raw |-> <<>>,
                      image |-> rawToImage(normalizeData(normWorker.raw),
                                           normWorker.image)]
    /\ UNCHANGED <<width, height, canvas, rawImageData, progress, pass,
                   running, workers, chan, numWorkersComplete, rawData,
                   endCalls, terminalsHandled, offEngine>>

\* normWorker.onmessage: drawImage, updateRawImageData, destroyWorkers twice,
\* endCallback.
OnNormMessage ==
    /\ normWorker.state = "replied"
    /\ canvas' = normWorker.image
    /\ rawImageData' = canvas'
    /\ workers' = DestroyedWorkers
    /\ chan' = NoMessages
    /\ normWorker' = [state |-> "terminated", raw |-> <<>>, image |-> <<>>]
    /\ endCalls' = endCalls + 1
    /\ running' = FALSE
    /\ UNCHANGED <<width, height, progress, pass, numWorkersComplete, rawData,
                   terminalsHandled, offEngine>>

Next ==
    \/ \E noise \in NoiseNames, isNormalized \in BOOLEAN,
          widthStep \in 1..MaxStep, heightStep \in 1..MaxStep :
          GenerateStart(noise, isNormalized, widthStep, heightStep)
    \/ \E descriptor \in Palettes : ApplyPaletteStart(descriptor)
    \/ \E i \in WorkerIds : WorkerRun(i)
    \/ \E i \in WorkerIds : OnWorkerMessage(i)
    \/ NormWorkerRun
    \/ OnNormMessage

Spec == Init /\ [][Next]_vars

\* A step of a worker or of a handler of the page.
Advance ==
    \/ \E i \in WorkerIds : WorkerRun(i)
    \/ \E i \in WorkerIds : OnWorkerMessage(i)
    \/ NormWorkerRun
    \/ OnNormMessage

\* The guards of the steps of Advance: ENABLED <<Advance>>_vars.
AdvanceEnabled ==
    \/ \E i \in WorkerIds : workers[i].state = "posted"
    \/ \E i \in WorkerIds : workers[i].state # "terminated" /\ chan[i] # <<>>
    \/ normWorker.state \in {"posted", "replied"}

\* The workers and the event loop of the page keep running: while a worker
\* has a message to work on or the page has a message to handle, one of
\* them takes a step.  This is WF_vars(Advance), with the guards written
\* out in place of ENABLED.
Fairness == ([]<>(~AdvanceEnabled)) \/ ([]<><<Advance>>_vars)

\* The generation passes alone: the page with its Generate button.
GenerationNext ==
    \/ \E noise \in NoiseNames, isNormalized \in BOOLEAN,
          widthStep \in 1..MaxStep, heightStep \in 1..MaxStep :
          GenerateStart(noise, isNormalized, widthStep, heightStep)
    \/ \E i \in WorkerIds : WorkerRun(i)
    \/ \E i \in WorkerIds : OnWorkerMessage(i)
    \/ NormWorkerRun
    \/ OnNormMessage

FairSpec == Init /\ [][GenerationNext]_vars /\ Fairness

\* triggerNoiseWorkers(surface, image, noise, params, 2, widthStep,
\* heightStep, endCallback) or triggerNormalizedWorkers(surface, image,
\* noise, params, 2, width, height, widthStep, heightStep, endCallback)
\* on the image of the surface, with the steps the caller hands over.
TriggerWorkers(noise, isNormalized, widthStep, heightStep) ==
    /\ ~running
    /\ progress' = [current |-> 0]
    /\ running' = TRUE
    /\ pass' = [kind |-> IF isNormalized THEN "normalized" ELSE "noise",
                noise |-> noise, palette |-> <<>>]
    /\ numWorkersComplete' = 0
    /\ rawData' = IF isNormalized THEN NewArray(width * height) ELSE <<>>
    /\ workers' = [i \in WorkerIds |->
          [state |-> "posted",
           bounds |-> TileOf(i, widthStep, heightStep),
           data |-> IF isNormalized THEN NewArray(width * height)
                    ELSE rawImageData,
           src |-> <<>>]]
    /\ chan' = NoMessages
    /\ normWorker' = NoNormWorker
    /\ endCalls' = 0
    /\ terminalsHandled' = {}
    /\ UNCHANGED <<width, height, canvas, rawImageData, offEngine>>

\* The generation passes with tiles of the surface's share or of height 0.
StepNext ==
    \/ \E noise \in NoiseNames, isNormalized \in BOOLEAN,
          heightStep \in {0, height \div NumWorkersSide} :
          TriggerWorkers(noise, isNormalized, width \div NumWorkersSide,
                         heightStep)
    \/ \E i \in WorkerIds : WorkerRun(i)
    \/ \E i \in WorkerIds : OnWorkerMessage(i)
    \/ NormWorkerRun
    \/ OnNormMessage

StepSpec == Init /\ [][StepNext]_vars

(***************************************************************************)
(* Properties of the tiled engine                                          *)
(***************************************************************************)

GenerationPass == pass.kind \in {"noise", "normalized"}

FullBounds == [startX |-> 0, endX |-> width, startY |-> 0, endY |-> height]

TilePixels(b) == (b.startX..(b.endX - 1)) \X (b.startY..(b.endY - 1))

\* C1: in a noise, normalized or palette pass the end callback is invoked at
\* most once, and only when the terminal message of every one of the n*n
\* tiles has been handled: a tile whose terminal message is never handled
\* keeps the end callback from being invoked.
C1_EndOnceAfterAllTerminals ==
    /\ endCalls <= 1
    /\ endCalls >= 1 =>
          /\ terminalsHandled = WorkerIds
          /\ Cardinality(terminalsHandled) = NumWorkersSide * NumWorkersSide

C1_Witness ==
    /\ endCalls = 1
    /\ pass.kind = "palette"
    /\ width # height

\* C2: once the terminal messages of all tiles have been handled, the
\* assembled buffer is the one a single run over the whole image produces,
\* whatever the order in which the messages were handled.
C2_AssembledBufferOrderFree ==
    ((running /\ terminalsHandled = WorkerIds) \/ endCalls = 1) =>
        CASE pass.kind = "noise" ->
                canvas = generate(createImageData(width, height),
                                  pass.noise, width, FullBounds)
          [] pass.kind = "normalized" ->
                rawData = generateRaw(NewArray(width * height), pass.noise,
                                      width, FullBounds)
          [] OTHER ->
                canvas = applyPaletteTile(rawImageData,
                            createImageData(width, height), pass.palette,
                            width, FullBounds)

C2_Witness ==
    /\ pass.kind = "normalized"
    /\ numWorkersComplete = NumWorkers
    /\ normWorker.state = "posted"
    /\ width = 2 * NumWorkersSide

\* C3: with width and height multiples of gridSide, the bounds dispatched
\* to the workers are pairwise disjoint and their union is
\* [0, width) x [0, height).
C3_TilesPartitionImage ==
    running =>
        /\ \A i \in WorkerIds : workers[i].state \in {"posted", "done"}
        /\ \A i, j \in WorkerIds :
              i # j => TilePixels(workers[i].bounds)
                          \cap TilePixels(workers[j].bounds) = {}
        /\ UNION {TilePixels(workers[i].bounds) : i \in WorkerIds}
              = (0..(width - 1)) \X (0..(height - 1))

C3_Witness ==
    /\ running
    /\ width = 2 * NumWorkersSide
    /\ height = NumWorkersSide
    /\ \A i \in WorkerIds : workers[i].state = "posted"

LastTerminalStep ==
    terminalsHandled # WorkerIds /\ terminalsHandled' = WorkerIds

EndStep == endCalls' = endCalls + 1

\* C4: when every worker delivers its terminal message and the
\* normalization worker replies, the end callback is invoked.  In a noise or
\* palette pass it is invoked in the step that handles the last terminal
\* message; in a normalized pass it is not invoked in that step, but in the
\* step that draws the normalization reply on the surface.
C4_EndEventuallyInvoked ==
    /\ running ~> (~running /\ endCalls = 1)
    /\ [][pass.kind # "normalized" => (EndStep <=> LastTerminalStep)]_vars
    /\ [][pass.kind = "normalized" =>
            /\ LastTerminalStep => (~EndStep /\ normWorker'.state = "posted")
            /\ EndStep => /\ normWorker.state = "replied"
                          /\ canvas' = normWorker.image
                          /\ rawImageData' = normWorker.image]_vars

C4_Witness ==
    /\ endCalls = 1
    /\ pass.kind = "normalized"
    /\ normWorker.state = "terminated"
    /\ canvas = rawImageData

\* C5: a noise worker posts one progress message per column of its tile,
\* then one terminal message with the filled buffer and the bounds it was
\* given, and nothing after it.
C5_WorkerMessageSequence ==
    [][\A i \in WorkerIds :
        (GenerationPass /\ workers[i].state = "posted"
            /\ workers'[i].state = "done") =>
        LET b == workers[i].bounds
            cols == b.endX - b.startX
            msgs == chan'[i]
            last == msgs[Len(msgs)]
        IN  /\ Len(msgs) = cols + 1
            /\ \A k \in 1..cols :
                  ~msgs[k].terminal /\ msgs[k].progress # Undefined
            /\ last.terminal /\ last.progress = Undefined
            /\ <<last.startX, last.endX, last.startY, last.endY>>
                  = <<b.startX, b.endX, b.startY, b.endY>>
            /\ \A c \in TilePixels(b) :
                  IF pass.kind = "noise"
                  THEN last.data[c[2] * width + c[1]][1]
                          = getPixel(pass.noise, c[1], c[2])
                  ELSE last.data[c[2] * width + c[1] + 1]
                          = getPixelRaw(pass.noise, c[1], c[2])]_vars

\* C28: a palette pass never changes rawImageData, in whatever order its
\* tiles complete, and when it has ended the canvas shows the palette of
\* that pass applied to rawImageData, whatever palettes were applied
\* before it.
C28_PaletteKeepsRaw ==
    /\ [][pass'.kind = "palette" => rawImageData' = rawImageData]_vars
    /\ [](pass.kind = "palette" /\ endCalls = 1 =>
            canvas = applyPaletteTile(rawImageData,
                        createImageData(width, height), pass.palette,
                        width, FullBounds))

\* A palette pass has ended on a surface that holds a generated image.
C28_Witness ==
    /\ pass.kind = "palette"
    /\ endCalls = 1
    /\ ~running
    /\ rawImageData # createImageData(width, height)
    /\ canvas # rawImageData

C5_Witness ==
    /\ GenerationPass
    /\ \E i \in WorkerIds :
          /\ workers[i].state = "done"
          /\ workers[i].bounds.endX - workers[i].bounds.startX = 2
          /\ workers[i].bounds.endY - workers[i].bounds.startY = 1
          /\ Len(chan[i]) = 3

\* C6: in a generation pass with dimensions divisible by gridSide, every
\* progress increment is the height of the reporting tile, the running
\* total never exceeds width*height, and it is width*height when the end
\* callback is invoked.
C6_ProgressTotal ==
    GenerationPass =>
        /\ \A i \in WorkerIds : \A k \in 1..Len(chan[i]) :
              ~chan[i][k].terminal =>
                  chan[i][k].progress
                      = workers[i].bounds.endY - workers[i].bounds.startY
        /\ progress.current <= width * height
        /\ endCalls = 1 => progress.current = width * height

C6_Witness ==
    /\ GenerationPass
    /\ endCalls = 1
    /\ progress.current = width * height
    /\ width = 2 * NumWorkersSide
    /\ height = NumWorkersSide

(***************************************************************************)
(* normalizeData on its own: a raw field of integers goes in, doubles come *)
(* out.                                                                    *)
(***************************************************************************)

\* A field has at most MaxLen entries, each in 0..MaxRaw.
MaxLen == 2
MaxRaw == 49

RECURSIVE Fields(_)
Fields(len) ==
    IF len = 0 THEN {<<>>}
    ELSE {Append(f, v) : f \in Fields(len - 1), v \in 0..MaxRaw}

NormInit ==
    /\ \E len \in 1..MaxLen : field \in Fields(len)
    /\ normalized = <<>>
    /\ EngineIdle
    /\ EditorIdle
    /\ UnitIdle

\* The call normalizeData(raw) of the normalization worker.
Normalize ==
    /\ normalized = <<>>
    /\ normalized' = normalizeData(field)
    /\ UNCHANGED <<field, offNorm>>

NormNext == Normalize

NormSpec == NormInit /\ [][NormNext]_vars

Normalized == normalized # <<>>

\* C7: normalizing a flat field (max = min) leaves every entry a finite
\* number; no entry is NaN.
C7_FlatFieldNoNaN ==
    (Normalized /\ ArrayMin(field) = ArrayMax(field)) =>
        \A pos \in 1..Len(normalized) : normalized[pos].k \in {"zero", "num"}

\* C8: with max > min, the minimum maps to 0, the maximum maps to 255,
\* every result lies in [0, 255] and the order of the values is preserved.
C8_NormalizeMapsRange ==
    (Normalized /\ ArrayMin(field) < ArrayMax(field)) =>
        /\ \A pos \in 1..Len(field) :
              /\ field[pos] = ArrayMin(field) => normalized[pos] = FZero
              /\ field[pos] = ArrayMax(field) => normalized[pos] = FromInt(255)
              /\ FLe(FZero, normalized[pos])
              /\ FLe(normalized[pos], FromInt(255))
        /\ \A p, q \in 1..Len(field) :
              field[p] < field[q] => FLess(normalized[p], normalized[q])

(***************************************************************************)
(* UIMultiRange (ui_multirange.js): the arrays thumbs and segments.        *)
(* A thumb is [index, value], a segment [index, color, mode]; the page     *)
(* elements, positions and widths the objects also hold are drawn from     *)
(* these and are left out.  Values are kept in units of                    *)
(* (max - min) / 2^ValueBits with min = 0, so that the halvings of the     *)
(* code are exact; a call whose halving lands between two units is left    *)
(* out.                                                                    *)
(***************************************************************************)

\* An editor has at most MaxSegments segments.
MaxSegments == 5
\* Thumb values have ValueBits binary digits after the point.
ValueBits == 3

RangeMin == 0
RangeMax == Pow2(ValueBits)

Halvable(v) == v % 2 = 0
Half(v) == v \div 2

\* A variant: the left value not added back.
MidpointNoBase(left, right) == Half(right - left)

\* ((right - left) * 0.5) + left
Midpoint(left, right) == Half(right - left) + left

\* Array.splice(at, 0, item) and Array.splice(at, 1), at counted from 0.
SpliceIn(array, at, item) ==
    SubSeq(array, 1, at) \o <<item>> \o SubSeq(array, at + 1, Len(array))

SpliceOut(array, at) ==
    IF at < 0 \/ at >= Len(array) THEN array
    ELSE SubSeq(array, 1, at) \o SubSeq(array, at + 2, Len(array))

\* A variant: the renumbering loops left out.
NoRenumber(array, from) == array

\* for(var i = from; i < array.length; ++i) array[i].index = i
Renumber(array, from) ==
    [p \in 1..Len(array) |->
        IF p - 1 >= from THEN [array[p] EXCEPT !.index = p - 1] ELSE array[p]]

Thumb(index, value) == [index |-> index, value |-> value]

Segment(index, color, mode) == [index |-> index, color |-> color, mode |-> mode]

\* load(thumbs, colors, modes)
load(values, colors, modes) ==
    [thumbs   |-> [p \in 1..Len(values) |-> Thumb(p - 1, values[p])],
     segments |-> [p \in 1..(Len(values) + 1) |->
                      Segment(p - 1, colors[p], modes[p])]]

\* The thumb values, colours and modes an editor is loaded with.
LoadValues == {<<>>, <<4>>, <<2, 6>>}
LoadColors == <<"#ff0000", "#00ff00", "#0000ff">>
LoadModes  == <<"solid", "smooth", "none">>

EditorInit ==
    /\ \E values \in LoadValues :
          /\ thumbs = load(values, LoadColors, LoadModes).thumbs
          /\ segments = load(values, LoadColors, LoadModes).segments
          /\ peak = Len(values) + 1
    /\ lastCall = NoCall
    /\ EngineIdle
    /\ NormIdle
    /\ UnitIdle

\* The value of the thumb splitSegment adds, by the branch it takes.
SplitValue(segmentIndex, min, max) ==
    IF Len(segments) = 1 THEN (max - min)
    ELSE IF segmentIndex - 1 < 0 THEN thumbs[segmentIndex + 1].value
    ELSE IF segmentIndex = Len(thumbs)
    THEN max - thumbs[segmentIndex].value
    ELSE thumbs[segmentIndex + 1].value - thumbs[segmentIndex].value

\* splitSegment(segment) on the segment at position p of the array, in an
\* editor whose range is [min, max].
splitSegmentIn(p, min, max) ==
    LET segment == segments[p]
        segmentIndex == segment.index
        leftThumbIndex == segmentIndex - 1
        rightThumbIndex == segmentIndex
    IN  /\ Len(segments) < MaxSegments
        /\ Halvable(SplitValue(segmentIndex, min, max))
        /\ lastCall' = [op |-> "split", refused |-> FALSE]
        /\ peak' = IF Len(segments) + 1 > peak THEN Len(segments) + 1 ELSE peak
        /\ IF Len(segments) = 1
           THEN /\ thumbs' = Append(thumbs,
                        Thumb(0, Half(max - min)))
                /\ segments' = Append(segments,
                        Segment(1, segment.color, segment.mode))
           ELSE IF leftThumbIndex < 0
           THEN /\ thumbs' = Renumber(SpliceIn(thumbs, 0,
                        Thumb(0, Half(thumbs[rightThumbIndex + 1].value))), 1)
                /\ segments' = Renumber(SpliceIn(segments, 0,
                        Segment(0, segment.color, segment.mode)), 1)
           ELSE IF rightThumbIndex = Len(thumbs)
           THEN /\ thumbs' = Append(thumbs,
                        Thumb(rightThumbIndex,
                              Midpoint(thumbs[leftThumbIndex + 1].value, max)))
                /\ segments' = Append(segments,
                        Segment(segmentIndex + 1, segment.color, segment.mode))
           ELSE /\ thumbs' = Renumber(SpliceIn(thumbs, rightThumbIndex,
                        Thumb(rightThumbIndex,
                              Midpoint(thumbs[leftThumbIndex + 1].value,
                                       thumbs[rightThumbIndex + 1].value))),
                        rightThumbIndex)
                /\ segments' = Renumber(SpliceIn(segments, rightThumbIndex,
                        Segment(rightThumbIndex, segment.color, segment.mode)),
                        rightThumbIndex)
        /\ UNCHANGED offEditor

\* splitSegment(segment) in the editor of the page.
splitSegment(p) == splitSegmentIn(p, RangeMin, RangeMax)

\* A variant: a guard that lets the last segment go.
RemoveGuardAny(length) == length > 0

\* if(segment && this.segments.length > 1)
RemoveGuard(length) == length > 1

\* removeSegment(segment) on the segment at position p of the array.
removeSegment(p) ==
    LET segment == segments[p]
        segmentIndex == segment.index
        leftThumbIndex == segmentIndex - 1
        rightThumbIndex == segmentIndex
        middle == segmentIndex # Len(segments) - 1 /\ segmentIndex >= 1
    IN  IF ~RemoveGuard(Len(segments))
        THEN /\ lastCall' = [op |-> "remove", refused |-> TRUE]
             /\ UNCHANGED <<thumbs, segments, peak, offEditor>>
        ELSE /\ middle => Halvable(thumbs[rightThumbIndex + 1].value
                                     - thumbs[leftThumbIndex + 1].value)
             /\ lastCall' = [op |-> "remove", refused |-> FALSE]
             /\ IF segmentIndex = Len(segments) - 1
                THEN /\ thumbs' = Renumber(SpliceOut(thumbs, leftThumbIndex), 0)
                     /\ segments' = Renumber(SpliceOut(segments, segmentIndex), 0)
                ELSE IF segmentIndex >= 1
                THEN /\ thumbs' =
                          [Renumber(SpliceOut(thumbs, leftThumbIndex), 0)
                              EXCEPT ![leftThumbIndex + 1].value =
                                  Midpoint(thumbs[leftThumbIndex + 1].value,
                                           thumbs[rightThumbIndex + 1].value)]
                     /\ segments' = Renumber(SpliceOut(segments, segmentIndex), 0)
                ELSE /\ thumbs' = Renumber(SpliceOut(thumbs, 0), 0)
                     /\ segments' = Renumber(SpliceOut(segments, 0), 0)
             /\ UNCHANGED <<peak, offEditor>>

EditorNext ==
    \/ \E p \in 1..Len(segments) : splitSegment(p)
    \/ \E p \in 1..Len(segments) : removeSegment(p)

EditorSpec == EditorInit /\ [][EditorNext]_vars

\* C9: thumbs.length = segments.length - 1, and the index of every thumb and
\* of every segment is its position in its array, after every splitSegment
\* and removeSegment call on an existing segment.
C9_EditorIndicesContiguous ==
    /\ Len(thumbs) = Len(segments) - 1
    /\ \A p \in 1..Len(thumbs) : thumbs[p].index = p - 1
    /\ \A p \in 1..Len(segments) : segments[p].index = p - 1

\* Split up to five segments, then removed back to one.
C9_Witness ==
    /\ peak = 5
    /\ Len(segments) = 1
    /\ thumbs = <<>>
    /\ lastCall = [op |-> "remove", refused |-> FALSE]

\* C10: removeSegment on an editor with exactly one segment and no thumbs
\* leaves the thumbs and segments arrays as they were.
C10_RemoveLastSegmentRefused ==
    [][(Len(segments) = 1 /\ lastCall'.op = "remove"
            /\ lastCall' # lastCall) =>
        (thumbs' = thumbs /\ segments' = segments /\ lastCall'.refused)]_vars

C10_Witness ==
    /\ lastCall = [op |-> "remove", refused |-> TRUE]
    /\ Len(segments) = 1
    /\ thumbs = <<>>

\* The values of the thumbs and the colours and modes of the segments, in
\* array order.
ThumbValues(array) == [q \in 1..Len(array) |-> array[q].value]

SegmentLooks(array) ==
    [q \in 1..Len(array) |-> <<array[q].color, array[q].mode>>]

\* A sequence with item put in before position q, and with position q
\* taken out.
WithItem(seq, q, item) ==
    SubSeq(seq, 1, q - 1) \o <<item>> \o SubSeq(seq, q, Len(seq))

WithoutItem(seq, q) == SubSeq(seq, 1, q - 1) \o SubSeq(seq, q + 1, Len(seq))

\* Twice the middle of the two values that bound the segment at position
\* p: 0 and max at the two ends, the thumbs to its left and right elsewhere.
TwiceMiddle(p) ==
    (IF p = 1 THEN 0 ELSE thumbs[p - 1].value)
        + (IF p = Len(segments) THEN RangeMax ELSE thumbs[p].value)

\* C21: splitSegment on an editor with two or more segments inserts one
\* thumb and one segment; the value of the new thumb is the middle of the
\* two values that bound the split segment, the new segment has the colour
\* and mode of the split segment, and every other thumb keeps its value.
C21_SplitInsertsMidpoint ==
    [][(/\ Len(segments) >= 2
        /\ lastCall'.op = "split"
        /\ <<thumbs, segments>>' # <<thumbs, segments>>) =>
           \E p \in 1..Len(segments), value \in 0..RangeMax :
              /\ 2 * value = TwiceMiddle(p)
              /\ ThumbValues(thumbs') = WithItem(ThumbValues(thumbs), p, value)
              /\ SegmentLooks(segments') =
                    WithItem(SegmentLooks(segments), p,
                             SegmentLooks(segments)[p])]_vars

\* A split has taken an editor of at least three segments to four or more.
C21_Witness ==
    /\ lastCall = [op |-> "split", refused |-> FALSE]
    /\ Len(segments) >= 4
    /\ Len(thumbs) = Len(segments) - 1

\* The thumbs after the segment at position p is removed: the last thumb
\* dropped for the last segment, the first for the first, and for a
\* segment in between its two thumbs replaced by one in their middle.
ThumbsWithout(p, value) ==
    IF p = Len(segments) THEN WithoutItem(ThumbValues(thumbs), Len(thumbs))
    ELSE IF p = 1 THEN WithoutItem(ThumbValues(thumbs), 1)
    ELSE WithItem(WithoutItem(WithoutItem(ThumbValues(thumbs), p), p - 1),
                  p - 1, value)

\* C22: removeSegment on an editor with two or more segments takes out one
\* thumb and the segment named: the last thumb with the last segment, the
\* first thumb with the first, and with a segment in between one of its two
\* thumbs, the other set to the middle of the two; the colours and modes of
\* the other segments and the values of the other thumbs stay.
C22_RemoveDropsOne ==
    [][(/\ Len(segments) >= 2
        /\ lastCall'.op = "remove"
        /\ <<thumbs, segments>>' # <<thumbs, segments>>) =>
           \E p \in 1..Len(segments), value \in 0..RangeMax :
              /\ (p # 1 /\ p # Len(segments)) => 2 * value = TwiceMiddle(p)
              /\ ThumbValues(thumbs') = ThumbsWithout(p, value)
              /\ SegmentLooks(segments') =
                    WithoutItem(SegmentLooks(segments), p)]_vars

\* A segment has been removed and three or more are left, so that one with
\* a thumb on each side can have been the one.
C22_Witness ==
    /\ lastCall = [op |-> "remove", refused |-> FALSE]
    /\ Len(segments) >= 3
    /\ Len(thumbs) = Len(segments) - 1

\* C29: thumb values that are in index order and within [0, max] are still
\* so after every splitSegment and removeSegment.
C29_ThumbsStayOrdered ==
    /\ \A q \in 1..Len(thumbs) :
          thumbs[q].value >= RangeMin /\ thumbs[q].value <= RangeMax
    /\ \A q \in 1..(Len(thumbs) - 1) : thumbs[q].value <= thumbs[q + 1].value

\* Five segments were reached and a removal has left three thumbs.
C29_Witness ==
    /\ peak = 5
    /\ Len(thumbs) = 3
    /\ lastCall = [op |-> "remove", refused |-> FALSE]

(***************************************************************************)
(* Palette on its own: a palette is built from a descriptor, then values   *)
(* are transformed one after another, as the palette worker does with the  *)
(* pixels of its tile.                                                     *)
(***************************************************************************)

\* The values transformed: 0..MaxValue, and the middle and the top of the
\* byte range.
MaxValue == 16

Values == (0..MaxValue) \cup {127, 255}

Seg(start, r, g, b, mode) ==
    [start |-> start, r |-> r, g |-> g, b |-> b, mode |-> mode]

\* The descriptors of this machine, with the modes of the segment editor.
\* A descriptor whose first segment is smooth starts at 0, so every value
\* lies at or above the start of the segment found for it.
PaletteDescriptors == {
    << Seg(0, 10, 20, 30, "Solid"), Seg(5, 200, 100, 0, "Solid"),
       Seg(9, 1, 2, 3, "Solid") >>,
    << Seg(0, 9, 9, 9, "None"), Seg(6, 200, 100, 0, "Solid") >>,
    << Seg(0, 10, 20, 30, "Solid"), Seg(4, 9, 9, 9, "None"),
       Seg(12, 1, 2, 3, "Solid") >>,
    << Seg(5, 10, 20, 30, "Solid"), Seg(10, 200, 100, 0, "Solid") >>,
    << Seg(5, 10, 20, 30, "None"), Seg(10, 200, 100, 0, "Solid") >>,
    << Seg(0, 0, 0, 0, "Smooth RGB"), Seg(255, 255, 255, 255, "Smooth RGB") >>,
    << Seg(0, 1, 100, 7, "Smooth RGB"), Seg(3, 127, 2, 200, "Smooth RGB") >>,
    << Seg(7, 10, 20, 30, "Solid"), Seg(0, 255, 255, 255, "Smooth RGB"),
       Seg(3, 254, 0, 100, "Solid") >> }

PaletteInit ==
    /\ \E descriptor \in PaletteDescriptors :
          paletteSegments = build(descriptor)
    /\ shown = NoLookup
    /\ firstNone = <<>>
    /\ MainIdle
    /\ PrngIdle
    /\ NextIdle
    /\ WorleyIdle
    /\ TemplateIdle
    /\ TileIdle
    /\ RangeIdle
    /\ DistanceIdle
    /\ SearchIdle
    /\ RandomIdle

\* The call palette.transform(value).
Transform(value) ==
    LET index  == findSegment(paletteSegments, value)
        colour == transform(paletteSegments, value)
    IN  /\ shown' = [value |-> value, index |-> index, colour |-> colour]
        /\ firstNone' =
              IF firstNone = <<>> /\ paletteSegments[index + 1].mode = "None"
              THEN colour ELSE firstNone
        /\ UNCHANGED <<paletteSegments, offPalette>>

PaletteNext == \E value \in Values : Transform(value)

PaletteSpec == PaletteInit /\ [][PaletteNext]_vars

Looked == shown # NoLookup

\* The segment findSegment returned for the value shown.
Found == paletteSegments[shown.index + 1]

\* The positions of the segments whose start is at or below the value shown.
AtOrBelow == {p \in 1..Len(paletteSegments) :
                 paletteSegments[p].start <= shown.value}

\* C11: when some segment starts at or below v, findSegment(v) is the index
\* of the last segment whose start is at or below v; for v equal to the
\* start of a segment it is that segment's index.
C11_FindSegmentLastAtOrBelow ==
    (Looked /\ AtOrBelow # {}) =>
        \A p \in AtOrBelow :
            (\A q \in AtOrBelow : q <= p) => shown.index = p - 1

\* C12: every value whose segment has mode None is transformed to the same
\* colour.
C12_NoneIsFixedGray ==
    (Looked /\ Found.mode = "None" /\ firstNone # <<>>) =>
        shown.colour = firstNone

\* C13: a value below the start of the first segment is transformed to the
\* grey (v, v, v), whatever the colour and mode of the first segment.
C13_BelowFirstIsGrayscale ==
    (Looked /\ AtOrBelow = {}) =>
        shown.colour = <<shown.value, shown.value, shown.value>>

\* Math.trunc(from * (1 - frac) + to * frac) on numbers, for the value and
\* the segment shown and the segment after it.
SmoothChannel(from, to) ==
    LET next == paletteSegments[shown.index + 2]
        frac == BigDiv(shown.value - Found.start, next.start - Found.start)
        rest == BigRound(BigSub(BigOne, frac), FALSE, FALSE, 0)
        sum  == BigAdd(BigRound(BigMulSmall(from, rest), FALSE, FALSE, 0),
                       BigRound(BigMulSmall(to, frac), FALSE, FALSE, 0))
    IN  BigTrunc(BigRound(sum, FALSE, FALSE, 0))

BlackToWhite ==
    << Seg(0, 0, 0, 0, "Smooth RGB"), Seg(255, 255, 255, 255, "Smooth RGB") >>

\* C14: for a Smooth RGB segment with a next segment, every channel of
\* transform(v) is the truncated left * (1 - frac) + right * frac with
\* frac = (v - segment.start) / (nextSegment.start - segment.start); for a
\* smooth segment without a next one it is the segment's own colour; with
\* the palette black at 0, white at 255, transform(127) is within 1 of
\* (127, 127, 127).
C14_SmoothRgbInterpolates ==
    (Looked /\ Found.mode = "Smooth RGB") =>
        /\ shown.index + 1 < Len(paletteSegments) =>
              LET next == paletteSegments[shown.index + 2]
              IN  shown.colour = <<SmoothChannel(Found.r, next.r),
                                   SmoothChannel(Found.g, next.g),
                                   SmoothChannel(Found.b, next.b)>>
        /\ shown.index + 1 = Len(paletteSegments) =>
              shown.colour = <<Found.r, Found.g, Found.b>>
        /\ (paletteSegments = BlackToWhite /\ shown.value = 127) =>
              \A c \in 1..3 : shown.colour[c] \in 126..128

\* A value strictly inside a smooth segment whose result is below the exact
\* interpolation: 1 * (2/3) + 127 * (1/3) = 43, and the doubles give 42.
C14_Witness ==
    /\ Looked
    /\ Found.mode = "Smooth RGB"
    /\ shown.index + 1 < Len(paletteSegments)
    /\ Found.start < shown.value
    /\ shown.value = 1
    /\ shown.colour[1] = 42

(***************************************************************************)
(* noise.js: the generators.  A 32-bit word is <<hi, lo>>, two halves of   *)
(* 16 bits; the bit operations of the code work on the 32 bits of their    *)
(* operands, whether the number that holds them is signed or not.          *)
(***************************************************************************)
Half16 == Pow2(16)

\* ^ on 4 bits: Xor4[a + 1][b + 1]
Xor4 ==
    <<<< 0,  1,  2,  3,  4,  5,  6,  7,  8,  9, 10, 11, 12, 13, 14, 15>>,
      << 1,  0,  3,  2,  5,  4,  7,  6,  9,  8, 11, 10, 13, 12, 15, 14>>,
      << 2,  3,  0,  1,  6,  7,  4,  5, 10, 11,  8,  9, 14, 15, 12, 13>>,
      << 3,  2,  1,  0,  7,  6,  5,  4, 11, 10,  9,  8, 15, 14, 13, 12>>,
      << 4,  5,  6,  7,  0,  1,  2,  3, 12, 13, 14, 15,  8,  9, 10, 11>>,
      << 5,  4,  7,  6,  1,  0,  3,  2, 13, 12, 15, 14,  9,  8, 11, 10>>,
      << 6,  7,  4,  5,  2,  3,  0,  1, 14, 15, 12, 13, 10, 11,  8,  9>>,
      << 7,  6,  5,  4,  3,  2,  1,  0, 15, 14, 13, 12, 11, 10,  9,  8>>,
      << 8,  9, 10, 11, 12, 13, 14, 15,  0,  1,  2,  3,  4,  5,  6,  7>>,
      << 9,  8, 11, 10, 13, 12, 15, 14,  1,  0,  3,  2,  5,  4,  7,  6>>,
      <<10, 11,  8,  9, 14, 15, 12, 13,  2,  3,  0,  1,  6,  7,  4,  5>>,
      <<11, 10,  9,  8, 15, 14, 13, 12,  3,  2,  1,  0,  7,  6,  5,  4>>,
      <<12, 13, 14, 15,  8,  9, 10, 11,  4,  5,  6,  7,  0,  1,  2,  3>>,
      <<13, 12, 15, 14,  9,  8, 11, 10,  5,  4,  7,  6,  1,  0,  3,  2>>,
      <<14, 15, 12, 13, 10, 11,  8,  9,  6,  7,  4,  5,  2,  3,  0,  1>>,
      <<15, 14, 13, 12, 11, 10,  9,  8,  7,  6,  5,  4,  3,  2,  1,  0>>>>

Xor8(a, b) ==
    16 * Xor4[(a \div 16) + 1][(b \div 16) + 1]
        + Xor4[(a % 16) + 1][(b % 16) + 1]

Xor16(a, b) == 256 * Xor8(a \div 256, b \div 256) + Xor8(a % 256, b % 256)

RECURSIVE And16(_, _)
And16(a, b) ==
    IF a = 0 \/ b = 0 THEN 0
    ELSE 2 * And16(a \div 2, b \div 2) + ((a % 2) * (b % 2))

\* x ^ y
Xor32(x, y) == <<Xor16(x[1], y[1]), Xor16(x[2], y[2])>>

\* x & y
And32(x, y) == <<And16(x[1], y[1]), And16(x[2], y[2])>>

\* uint32(x + y)
Add32(x, y) ==
    <<(x[1] + y[1] + ((x[2] + y[2]) \div Half16)) % Half16,
      (x[2] + y[2]) % Half16>>

\* x << k, 0 < k < 32
Shl32(x, k) ==
    IF k < 16
    THEN <<((x[1] % Pow2(16 - k)) * Pow2(k)) + (x[2] \div Pow2(16 - k)),
           (x[2] % Pow2(16 - k)) * Pow2(k)>>
    ELSE <<(x[2] % Pow2(32 - k)) * Pow2(k - 16), 0>>

\* x >> k, 0 < k < 32: the sign bit of the 32-bit word is shifted in.
Sar32(x, k) ==
    LET sign == x[1] >= Pow2(15)
    IN  IF k < 16
        THEN <<(x[1] \div Pow2(k))
                  + (IF sign THEN (Pow2(k) - 1) * Pow2(16 - k) ELSE 0),
               (x[2] \div Pow2(k)) + (x[1] % Pow2(k)) * Pow2(16 - k)>>
        ELSE <<IF sign THEN Half16 - 1 ELSE 0,
               (x[1] \div Pow2(k - 16))
                  + (IF sign THEN (Pow2(k - 16) - 1) * Pow2(32 - k) ELSE 0)>>

\* uint32(n) of an integer n (31 bits and a sign)
Word(n) == <<(n \div Half16) % Half16, n % Half16>>

ZeroWord == Word(0)

\* RandomXorShift128.stateShift = [0, 239006280, 397831840, 88675123]
stateShift == << <<0, 0>>, <<3646, 62024>>, <<6070, 28320>>, <<1353, 4915>> >>

\* 3661901088
WellMask == <<55876, 11552>>

\* RandomXorShift32.nextUnbound: the new state, which is the value returned.
XorShift32Next(state) ==
    LET x1 == Xor32(state, Shl32(state, 13))
        x2 == Xor32(x1, Sar32(x1, 17))
    IN  Xor32(x2, Shl32(x2, 5))

\* RandomXorShift128.setSeed
XorShift128Seed(seed) == [i \in 1..4 |-> Add32(seed, stateShift[i])]

\* RandomXorShift128.nextUnbound: the new state; the value returned is
\* state[3] of the code, the last word.
XorShift128Next(state) ==
    LET temp == Xor32(state[1], Shl32(state[1], 11))
    IN  <<state[2], state[3], state[4],
          Xor32(Xor32(state[4], Sar32(state[4], 19)),
                Xor32(temp, Sar32(temp, 8)))>>

\* this.state[i] = this.xor.nextUnbound() for i = 0..15: the words drawn
\* from xor, and xor afterwards.
RECURSIVE WellFill(_, _, _)
WellFill(xor, words, left) ==
    IF left = 0 THEN [state |-> words, xor |-> xor]
    ELSE LET next == XorShift128Next(xor)
         IN  WellFill(next, Append(words, next[4]), left - 1)

\* RandomWELL512.nextUnbound on the 16 words (state[i + 1] is state[i] of
\* the code) and the index.
Well512Next(state, index) ==
    LET a0 == state[index + 1]
        c0 == state[((index + 13) % 16) + 1]
        b  == Xor32(a0, Xor32(Xor32(c0, Shl32(a0, 16)), Shl32(c0, 15)))
        c1 == state[((index + 9) % 16) + 1]
        c  == Xor32(c1, Sar32(c1, 11))
        a1 == Xor32(b, c)
        d  == Xor32(a1, And32(Shl32(a1, 5), WellMask))
        stored == [state EXCEPT ![index + 1] = a1]
        next == (index + 15) % 16
        a2 == stored[next + 1]
        out == Xor32(a2, Xor32(b, Xor32(Xor32(Xor32(d, Shl32(a2, 2)),
                                              Shl32(b, 18)), Shl32(c, 28))))
    IN  [state |-> [stored EXCEPT ![next + 1] = out], index |-> next,
         value |-> out]

Kinds == {"XorShift32", "XorShift128", "WELL512"}

\* CreateRandom(kind): the constructors.  The sixteen words of a WELL512
\* are undefined until the first setSeed; a bit operation reads undefined
\* as 0.
CreateRandom(kind) ==
    CASE kind = "XorShift32" ->
            [kind |-> kind, seed |-> ZeroWord, state |-> <<ZeroWord>>,
             index |-> 0, xor |-> <<>>]
      [] kind = "XorShift128" ->
            [kind |-> kind, seed |-> ZeroWord,
             state |-> [i \in 1..4 |-> ZeroWord], index |-> 0, xor |-> <<>>]
      [] OTHER ->
            [kind |-> kind, seed |-> ZeroWord,
             state |-> [i \in 1..16 |-> ZeroWord], index |-> 0,
             xor |-> [i \in 1..4 |-> ZeroWord]]

\* setSeed(value) of the three classes.  That of WELL512 assigns the seed,
\* the state of xor and the sixteen words; it does not assign the index.
setSeed(gen, value) ==
    CASE gen.kind = "XorShift32" ->
            [gen EXCEPT !.seed = Word(value), !.state = <<Word(value)>>]
      [] gen.kind = "XorShift128" ->
            [gen EXCEPT !.seed = Word(value),
                        !.state = XorShift128Seed(Word(value))]
      [] OTHER ->
            LET filled == WellFill(XorShift128Seed(Word(value)), <<>>, 16)
            IN  [gen EXCEPT !.seed = Word(value), !.state = filled.state,
                            !.xor = filled.xor]

\* nextUnbound(): the generator afterwards and the value returned.
nextUnbound(gen) ==
    CASE gen.kind = "XorShift32" ->
            LET x == XorShift32Next(gen.state[1])
            IN  [gen |-> [gen EXCEPT !.state = <<x>>], value |-> x]
      [] gen.kind = "XorShift128" ->
            LET st == XorShift128Next(gen.state)
            IN  [gen |-> [gen EXCEPT !.state = st], value |-> st[4]]
      [] OTHER ->
            LET w == Well512Next(gen.state, gen.index)
            IN  [gen |-> [gen EXCEPT !.state = w.state, !.index = w.index],
                 value |-> w.value]

\* Seeds are 0..MaxSeed; at most MaxDraws values are drawn after a setSeed.
MaxSeed == 2
MaxDraws == 3

PrngInit ==
    /\ \E kind \in Kinds, seed \in 0..MaxSeed :
          /\ prng = setSeed(CreateRandom(kind), seed)
          /\ twin = setSeed(CreateRandom(kind), seed)
    /\ drawn = <<>>
    /\ twinDrawn = <<>>
    /\ MainIdle
    /\ PaletteIdle
    /\ NextIdle
    /\ WorleyIdle
    /\ TemplateIdle
    /\ TileIdle
    /\ RangeIdle
    /\ DistanceIdle
    /\ SearchIdle
    /\ RandomIdle

\* prng.setSeed(value); beside it a generator of the same kind is
\* constructed and seeded with the same value.
SetSeed(value) ==
    /\ prng' = setSeed(prng, value)
    /\ twin' = setSeed(CreateRandom(prng.kind), value)
    /\ drawn' = <<>>
    /\ twinDrawn' = <<>>
    /\ UNCHANGED offPrng

\* prng.nextUnbound(), and the same call on the generator beside it.
NextUnbound ==
    /\ Len(drawn) < MaxDraws
    /\ prng' = nextUnbound(prng).gen
    /\ drawn' = Append(drawn, nextUnbound(prng).value)
    /\ twin' = nextUnbound(twin).gen
    /\ twinDrawn' = Append(twinDrawn, nextUnbound(twin).value)
    /\ UNCHANGED offPrng

PrngNext ==
    \/ \E value \in 0..MaxSeed : SetSeed(value)
    \/ NextUnbound

PrngSpec == PrngInit /\ [][PrngNext]_vars

\* C15: after setSeed(s) on a generator that has served nextUnbound calls,
\* the values nextUnbound returns are those of a freshly constructed
\* generator of the same kind seeded with s.
C15_SetSeedRestartsSequence == drawn = twinDrawn

\* x >>> k, 0 < k < 32: zeros are shifted in.
Shr32(x, k) ==
    IF k < 16
    THEN <<x[1] \div Pow2(k),
           (x[2] \div Pow2(k)) + (x[1] % Pow2(k)) * Pow2(16 - k)>>
    ELSE <<0, x[1] \div Pow2(k - 16)>>

\* x ^= x << 13; x ^= x >>> 17; x ^= x << 5 on unsigned 32-bit words
XorShift32Unsigned(state) ==
    CHOOSE x3 \in
        {Xor32(x2, Shl32(x2, 5)) :
            x2 \in {Xor32(x1, Shr32(x1, 17)) :
                x1 \in {Xor32(state, Shl32(state, 13))}}} : TRUE

\* C23: every value RandomXorShift32.nextUnbound returns is
\* x ^= x << 13; x ^= x >> 17; x ^= x << 5 of the state before the call,
\* computed on unsigned 32-bit words with a right shift that fills with
\* zeros, and it is the state after the call.
C23_XorShift32IsUnsigned ==
    (prng # <<>> /\ prng.kind = "XorShift32") =>
        /\ \A i \in 1..Len(drawn) :
              drawn[i] = XorShift32Unsigned(IF i = 1 THEN prng.seed
                                            ELSE drawn[i - 1])
        /\ Len(drawn) > 0 => prng.state = <<drawn[Len(drawn)]>>


\* ---------------------------------------------------------------------
\* Random.next(min, max): one call on one raw word.
\* ---------------------------------------------------------------------

\* The integer hi * 2^16 + lo as a number with unit 1.
BigFromWord(w) == BigCarry(<<w[2], 2 * w[1], 0, 0, 0>>)

\* An integer 0 <= n < 2^15 as a number with unit 1.
BigInt(n) == <<n, 0, 0, 0, 0>>

\* 2^53 + n for 0 <= n < 2^15, unit 1.
Big53(n) == <<n, 0, 0, Pow2(8), 0>>

RECURSIVE BigLessFrom(_, _, _)
BigLessFrom(x, y, i) ==
    IF i = 0 THEN FALSE
    ELSE IF x[i] # y[i] THEN x[i] < y[i]
    ELSE BigLessFrom(x, y, i - 1)

BigLess(x, y) == BigLessFrom(x, y, 5)

\* value * Random.maxRecip in unit 2^-64. Random.maxRecip is
\* 1.0 / (4294967296.0 + 1.0), which as a double is (2^32 - 1) * 2^-64.
TimesMaxRecip(value) ==
    (CHOOSE only \in {(CHOOSE only \in {BigRound(product, FALSE, FALSE, 0) :
              product \in
                  {BigSub(BigMulSmall(4, <<0, 0, v[1], v[2], v[3]>>), v)}} : TRUE) :
         v \in {BigFromWord(value)}} : TRUE)

\* uint32(x) for x >= 0 in unit 2^-64: the limbs below 2^64 are the
\* fraction; what is left stays below 2^32 for a range narrower than 2^16.
uint32(x) == x[5] \div Pow2(4)

\* next(min, max) on the word nextUnbound returned; min and max are
\* integers in unit 1 with max - min < 2^15.
next(value, min, max) ==
    (CHOOSE only \in {(CHOOSE only \in {(CHOOSE only \in {
              (CHOOSE only \in {BigRound(BigAdd(min, BigInt(uint32(scaled))),
                                         FALSE, FALSE, 0) :
                   scaled \in {BigRound(BigMulSmall(span[1], unit),
                                        FALSE, FALSE, 0)}} : TRUE) :
              unit \in {TimesMaxRecip(word)}} : TRUE) :
         span \in {BigRound(BigSub(max, min), FALSE, FALSE, 0)}} : TRUE) :
     word \in {value}} : TRUE)

MaxBound == 4

WordHalves == {0, 1, Pow2(15) - 1, Pow2(15), Pow2(16) - 1}

Words == WordHalves \X WordHalves

\* [min, max] pairs with min < max: small integers, the range NoiseRandom
\* asks for, and integers where doubles are two apart.
Ranges ==
    {<<BigInt(a), BigInt(b)>> : a \in 0..MaxBound, b \in 1..MaxBound} \cup
    {<<BigInt(0), BigInt(255)>>,
     <<Big53(0), Big53(2)>>, <<Big53(2), Big53(4)>>, <<Big53(0), Big53(4)>>}

NextInit ==
    /\ rawWord \in Words
    /\ nextRange \in {r \in Ranges : BigLess(r[1], r[2])}
    /\ nextResult = <<>>
    /\ MainIdle
    /\ PaletteIdle
    /\ PrngIdle
    /\ WorleyIdle
    /\ TemplateIdle
    /\ TileIdle
    /\ RangeIdle
    /\ DistanceIdle
    /\ SearchIdle
    /\ RandomIdle

CallNext ==
    /\ nextResult = <<>>
    /\ nextResult' = <<next(rawWord, nextRange[1], nextRange[2])>>
    /\ UNCHANGED <<rawWord, nextRange, offNext>>

NextSpec == NextInit /\ [][CallNext]_vars

MaxPixels == 4

\* The seeds of the parameter strings.
ParamSeeds == {1, 2, 1337}

\* new NoiseRandom()
NewNoiseRandom == [seed |-> 0, prng |-> CreateRandom("XorShift32")]

\* NoiseRandom.setSeed(value)
setNoiseSeed(noise, value) ==
    [noise EXCEPT !.seed = value, !.prng = setSeed(noise.prng, value)]

\* NoiseRandom.setParam(param, value) with Noise.setParam; the fields of
\* the piece are param and value.
setParam(noise, piece) ==
    CASE piece[1] = "seed" -> setNoiseSeed(noise, piece[2])
      [] piece[1] = "prng" -> [noise EXCEPT !.prng = CreateRandom(piece[2])]
      [] OTHER -> noise

\* Noise.setParams(params): setParam on every piece, in order.
RECURSIVE setParams(_, _)
setParams(noise, params) ==
    IF params = <<>> THEN noise
    ELSE setParams(setParam(noise, Head(params)), Tail(params))

\* NoiseRandom.getPixelRaw: this.prng.next(0, 255); the instance
\* afterwards and the value returned.
randomPixel(noise) ==
    (CHOOSE only \in {[noise |-> [noise EXCEPT !.prng = word.gen],
          value |-> next(word.value, BigInt(0), BigInt(255))] :
         word \in {nextUnbound(noise.prng)}} : TRUE)

\* The first n values getPixelRaw returns.
RECURSIVE randomPixels(_, _)
randomPixels(noise, n) ==
    IF n = 0 THEN <<>>
    ELSE (CHOOSE only \in {<<pixel.value>> \o randomPixels(pixel.noise, n - 1) :
              pixel \in {randomPixel(noise)}} : TRUE)

\* The parameter strings: a prng record, a seed record, or both in either
\* order.
ParamStrings ==
    {<< <<"prng", kind>>, <<"">> >> : kind \in Kinds} \cup
    {<< <<"seed", seed>>, <<"">> >> : seed \in ParamSeeds} \cup
    {<< <<"prng", kind>>, <<"seed", seed>>, <<"">> >> :
        kind \in Kinds, seed \in ParamSeeds} \cup
    {<< <<"seed", seed>>, <<"prng", kind>>, <<"">> >> :
        kind \in Kinds, seed \in ParamSeeds}

RandomInit ==
    /\ randomNoise = [noise |-> NewNoiseRandom, params |-> <<>>,
                      pixels |-> <<>>]
    /\ MainIdle
    /\ PaletteIdle
    /\ PrngIdle
    /\ NextIdle
    /\ WorleyIdle
    /\ TemplateIdle
    /\ TileIdle
    /\ RangeIdle
    /\ DistanceIdle
    /\ SearchIdle

offRandom ==
    <<mainVars, paletteVars, prngVars, nextVars, worleyVars, templateVars,
      tileVars, rangeVars, distanceVars, searchVars>>

\* noise.setParams(params), once on the instance createNoise made.
SetParams(params) ==
    /\ randomNoise # <<>>
    /\ randomNoise.params = <<>>
    /\ randomNoise' = [randomNoise EXCEPT
                          !.noise = setParams(randomNoise.noise, params),
                          !.params = params]
    /\ UNCHANGED offRandom

\* noise.getPixelRaw(x, y)
GetPixelRaw ==
    /\ randomNoise # <<>>
    /\ randomNoise.params # <<>>
    /\ Len(randomNoise.pixels) < MaxPixels
    /\ \E pixel \in {randomPixel(randomNoise.noise)} :
          randomNoise' = [randomNoise EXCEPT
                             !.noise = pixel.noise,
                             !.pixels = Append(randomNoise.pixels, pixel.value)]
    /\ UNCHANGED offRandom

RandomNext ==
    \/ \E params \in ParamStrings : SetParams(params)
    \/ GetPixelRaw

RandomSpec == RandomInit /\ [][RandomNext]_vars

\* The value of the record named param in a parameter string.
ParamValue(params, param) ==
    (CHOOSE piece \in {params[q] : q \in 1..Len(params)} :
        piece[1] = param)[2]

\* The parameter string with its first two pieces the other way round.
OtherOrder(params) == <<params[2], params[1]>> \o SubSeq(params, 3, Len(params))

\* C30: a NoiseRandom that was set a parameter string with a prng record
\* and a seed record draws from a generator of the requested kind that
\* was seeded with the requested seed, and its pixels are those the string
\* with the two records the other way round gives.
C30_ParamOrderFree ==
    (randomNoise # <<>> /\ Len(randomNoise.params) = 3) =>
        /\ randomNoise.pixels =
              randomPixels(
                  setParams(NewNoiseRandom, OtherOrder(randomNoise.params)),
                  Len(randomNoise.pixels))
        /\ randomNoise.pixels =
              randomPixels(
                  [NewNoiseRandom EXCEPT
                      !.prng = setSeed(
                          CreateRandom(ParamValue(randomNoise.params, "prng")),
                          ParamValue(randomNoise.params, "seed"))],
                  Len(randomNoise.pixels))

\* ---------------------------------------------------------------------
\* NoiseWorley.  Positions are in units of 2^-8 pixel and squared
\* distances in units of 2^-16; nextf() is read to its leading bits, and
\* Math.sqrt, Math.log, Math.cos and Math.sin are integer approximations:
\* each is a function of its argument alone, as it is in any one build.
\* A value that is used more than once is bound as  v \in {e}, which
\* evaluates e once; CHOOSE picks the one element of the set.
\* ---------------------------------------------------------------------

Infinity == 2147483647

Abs(n) == IF n < 0 THEN -n ELSE n

RECURSIVE IsqrtFrom(_, _)
IsqrtFrom(n, s) == IF (s + 1) * (s + 1) > n THEN s ELSE IsqrtFrom(n, s + 1)

\* floor(Math.sqrt(n))
Isqrt(n) == (CHOOSE only \in {IsqrtFrom(m, 0) : m \in {n}} : TRUE)

RECURSIVE Log2Floor(_)
Log2Floor(n) == IF n < 2 THEN 0 ELSE 1 + Log2Floor(n \div 2)

\* -log2(w) in units of 2^-8 for 0 < w < 1 given in units of 2^-28; the
\* mantissa is read linearly.
NegLog2(w) ==
    LET e    == Log2Floor(w)
        frac == IF e >= 8 THEN (w \div Pow2(e - 8)) - Pow2(8)
                ELSE w * Pow2(8 - e) - Pow2(8)
    IN  Pow2(8) * (28 - e) - frac

\* 1000 * cos(k * angleStep) for k = 0 .. 8 * radius - 1, by radius.
RadiusCos ==
    << <<1000, 707, 0, -707, -1000, -707, 0, 707>>,
       <<1000, 924, 707, 383, 0, -383, -707, -924,
         -1000, -924, -707, -383, 0, 383, 707, 924>>,
       <<1000, 966, 866, 707, 500, 259, 0, -259, -500, -707, -866, -966,
         -1000, -966, -866, -707, -500, -259, 0, 259, 500, 707, 866, 966>>,
       <<1000, 981, 924, 831, 707, 556, 383, 195, 0, -195, -383, -556,
         -707, -831, -924, -981, -1000, -981, -924, -831, -707, -556, -383,
         -195, 0, 195, 383, 556, 707, 831, 924, 981>> >>

\* radiusSampleRadius(step)
radiusSampleRadius(step) ==
    IF step = 0 THEN 1 ELSE ((Isqrt(step) - 1) \div 2) + 1

\* radiusSample(step), in thousandths
radiusSample(step) ==
    IF step = 0 THEN [x |-> 0, y |-> 0]
    ELSE LET radius      == radiusSampleRadius(step)
             radiusStart == ((4 * (radius * radius)) - (4 * radius)) + 1
             k           == step - radiusStart
             cos         == RadiusCos[radius]
         IN  [x |-> radius * cos[k + 1],
              y |-> radius * cos[((k - 2 * radius) % (8 * radius)) + 1]]

\* adjust(x), x in thousandths
adjust(x) ==
    IF x > 0
    THEN IF x % 1000 > 0 THEN (x \div 1000) + 1 ELSE x \div 1000
    ELSE IF x < 0 THEN -((-x) \div 1000) ELSE 0

\* cantorPair(x, y)
cantorPair(x, y) == (((x + y) * (x + y + 1)) \div 2) + y

\* floor(nextf() * 2^16): nextUnbound() * Random.maxRecip, and the
\* generator afterwards.
nextf(gen) ==
    (CHOOSE only \in {[gen   |-> n.gen,
          value |-> IF n.value[2] = 0 /\ n.value[1] > 0
                    THEN n.value[1] - 1 ELSE n.value[1]] :
         n \in {nextUnbound(gen)}} : TRUE)

\* The loop of gaussianRand: x0 and x1 in units of 2^-14, w in units of
\* 2^-28, drawn until w < 1.0.
RECURSIVE gaussianLoop(_)
gaussianLoop(rng) ==
    (CHOOSE only \in {(CHOOSE only \in {LET x0 == (2 * (f0.value \div 4)) - Pow2(14)
                  x1 == (2 * (f1.value \div 4)) - Pow2(14)
                  w  == (x0 * x0) + (x1 * x1)
              IN  IF w >= Pow2(28) THEN gaussianLoop(f1.gen)
                  ELSE [gen |-> f1.gen, x0 |-> x0, w |-> w] :
              f1 \in {nextf(f0.gen)}} : TRUE) :
         f0 \in {nextf(rng)}} : TRUE)

\* gaussianRand(rng): value0 = x0 * sqrt((-2 * log(w)) / w) in units of
\* 2^-4; nan when w is 0.  this.generate is set on every call, so a pair
\* is always drawn.
gaussianRand(rng) ==
    (CHOOSE only \in {LET ratio  == (drawnPair.x0 * drawnPair.x0)
                           \div ((drawnPair.w \div Pow2(8)) + 1)
             square == (ratio * NegLog2(drawnPair.w) * 355) \div Pow2(16)
         IN  IF drawnPair.w = 0
             THEN [gen |-> drawnPair.gen, value |-> 0, nan |-> TRUE]
             ELSE (CHOOSE only \in {[gen |-> drawnPair.gen, nan |-> FALSE,
                        value |-> IF drawnPair.x0 < 0 THEN -size ELSE size] :
                       size \in {Isqrt(square)}} : TRUE) :
         drawnPair \in {gaussianLoop(rng)}} : TRUE)

\* gaussianRandAdjusted(rng, mean, stddev), in units of 2^-4
gaussianRandAdjusted(rng, mean, stddev) ==
    (CHOOSE only \in {[g EXCEPT !.value = (g.value * stddev) + (16 * mean)] :
         g \in {gaussianRand(rng)}} : TRUE)

RECURSIVE Repeat(_, _)
Repeat(x, n) == IF n = 0 THEN <<>> ELSE <<x>> \o Repeat(x, n - 1)

\* The constructor, then setParam("seed") and setParam("n_closest_points").
NewNoiseWorley(seed, nClosestPoints) ==
    [regionDimensions |-> 16, densityMean |-> 3, densityStdDev |-> 3,
     nClosestPoints |-> nClosestPoints,
     prng |-> CreateRandom("XorShift32"),
     distances |-> <<>>, currX |-> 0, currY |-> 0, seed |-> seed]

\* The first loop of insertDistance: -1 for its return, else the index
\* it stops at.
RECURSIVE insertIndex(_, _, _)
insertIndex(noise, distance, index) ==
    IF index >= noise.nClosestPoints THEN index
    ELSE IF /\ noise.distances[index + 1] < Infinity
            /\ Abs(distance - noise.distances[index + 1]) < 656
    THEN -1
    ELSE IF distance < noise.distances[index + 1] THEN index
    ELSE insertIndex(noise, distance, index + 1)

\* A variant: the slot written without moving the farther ones up.
insertOverwrite(noise, distance) ==
    (CHOOSE only \in {IF index = -1 \/ index >= noise.nClosestPoints
         THEN noise.distances
         ELSE [noise.distances EXCEPT ![index + 1] = distance] :
         index \in {insertIndex(noise, distance, 0)}} : TRUE)

\* insertDistance(distance): this.distances afterwards
insertDistance(noise, distance) ==
    (CHOOSE only \in {IF index = -1 \/ index >= noise.nClosestPoints
         THEN noise.distances
         ELSE SubSeq(noise.distances, 1, index) \o <<distance>>
              \o SubSeq(noise.distances, index + 1, noise.nClosestPoints - 1) :
         index \in {insertIndex(noise, distance, 0)}} : TRUE)

\* The loop of checkRegion over the feature points, from i on.
RECURSIVE featurePoints(_, _, _, _, _)
featurePoints(noise, regionX, regionY, numFeaturePoints, i) ==
    IF numFeaturePoints.nan \/ 16 * i >= numFeaturePoints.value THEN noise
    ELSE (CHOOSE only \in {(CHOOSE only \in {
             LET featureX  == (Pow2(8) * regionX * noise.regionDimensions)
                                  + ((fx.value \div Pow2(8)) * noise.regionDimensions)
                 featureY  == (Pow2(8) * regionY * noise.regionDimensions)
                                  + ((fy.value \div Pow2(8)) * noise.regionDimensions)
                 vecX      == featureX - (Pow2(8) * noise.currX)
                 vecY      == featureY - (Pow2(8) * noise.currY)
                 vecLength == (vecX * vecX) + (vecY * vecY)
             IN  (CHOOSE only \in {featurePoints(added, regionX, regionY,
                                    numFeaturePoints, i + 1) :
                      added \in
                          {[noise EXCEPT
                               !.prng = fy.gen,
                               !.distances = insertDistance(noise, vecLength)]}} : TRUE) :
             fy \in {nextf(fx.gen)}} : TRUE) :
         fx \in {nextf(noise.prng)}} : TRUE)

\* checkRegion(regionX, regionY): the instance afterwards
checkRegion(noise, regionX, regionY) ==
    (CHOOSE only \in {(CHOOSE only \in {featurePoints([noise EXCEPT !.prng = numFeaturePoints.gen],
                            regionX, regionY, numFeaturePoints, 0) :
              numFeaturePoints \in
                  {gaussianRandAdjusted(seeded, noise.densityMean,
                                        noise.densityStdDev)}} : TRUE) :
         seeded \in {setSeed(noise.prng,
                             noise.seed + cantorPair(regionX, regionY))}} : TRUE)

\* keepChecking(step)
keepChecking(noise, step) ==
    LET furthestNearFeature == noise.distances[noise.nClosestPoints]
        prevRadius == radiusSampleRadius(step - 1) - 1
        currRadius == radiusSampleRadius(step) - 1
        scaled     == prevRadius * noise.regionDimensions
    IN  ~ /\ furthestNearFeature < Infinity
          /\ prevRadius # currRadius
          /\ furthestNearFeature < (scaled * scaled) * Pow2(16)

\* A variant: distances of the last call are kept.
keptDistances(noise) ==
    IF noise.distances = <<>> THEN Repeat(Infinity, noise.nClosestPoints)
    ELSE noise.distances

\* resetDistances(): this.distances afterwards
resetDistances(noise) == Repeat(Infinity, noise.nClosestPoints)

\* The do-while loop of getValue from one region on.
RECURSIVE checkLoop(_, _, _, _, _, _)
checkLoop(noise, regionX, regionY, checkX, checkY, step) ==
    (CHOOSE only \in {IF keepChecking(checked, step + 1)
         THEN (CHOOSE only \in {checkLoop(checked, regionX, regionY,
                             regionX + adjust(nextCheck.x),
                             regionY + adjust(nextCheck.y), step + 1) :
                   nextCheck \in {radiusSample(step)}} : TRUE)
         ELSE checked :
         checked \in {checkRegion(noise, checkX, checkY)}} : TRUE)

\* getValue(x, y): the instance afterwards and the value returned
getValue(noise, x, y) ==
    (CHOOSE only \in {(CHOOSE only \in {[noise |-> done, value |-> done.distances[done.nClosestPoints]] :
              done \in {checkLoop(started,
                                  x \div noise.regionDimensions,
                                  y \div noise.regionDimensions,
                                  x \div noise.regionDimensions,
                                  y \div noise.regionDimensions, 0)}} : TRUE) :
         started \in {[noise EXCEPT !.currX = x, !.currY = y,
                                    !.distances = resetDistances(noise)]}} : TRUE)

\* The regions the do-while loop of getValue passes to checkRegion, in
\* order, from one region on.
RECURSIVE checkedFrom(_, _, _, _, _, _)
checkedFrom(noise, regionX, regionY, checkX, checkY, step) ==
    CHOOSE only \in
        {<<<<checkX, checkY>>>> \o
            (IF keepChecking(checked, step + 1)
             THEN (CHOOSE rest \in
                      {checkedFrom(checked, regionX, regionY,
                                   regionX + adjust(nextCheck.x),
                                   regionY + adjust(nextCheck.y), step + 1) :
                       nextCheck \in {radiusSample(step)}} : TRUE)
             ELSE <<>>) :
         checked \in {checkRegion(noise, checkX, checkY)}} : TRUE

\* The regions getValue(x, y) passes to checkRegion.
regionsChecked(noise, x, y) ==
    CHOOSE only \in
        {checkedFrom(started,
                     x \div noise.regionDimensions,
                     y \div noise.regionDimensions,
                     x \div noise.regionDimensions,
                     y \div noise.regionDimensions, 0) :
         started \in {[noise EXCEPT !.currX = x, !.currY = y,
                                    !.distances = resetDistances(noise)]}} : TRUE

MaxQueries == 2

WorleySeeds == {1337, 42}

ClosestPoints == {1, 3}

\* Pixels of three regions, inside and at their edges.
Points == {<<0, 0>>, <<5, 9>>, <<15, 16>>, <<16, 15>>, <<31, 2>>}

WorleyInit ==
    /\ \E seed \in WorleySeeds, n \in ClosestPoints :
          /\ worley = NewNoiseWorley(seed, n)
          /\ freshValue =
                [p \in Points |->
                    getValue(NewNoiseWorley(seed, n), p[1], p[2]).value]
    /\ asked = <<>>
    /\ MainIdle
    /\ PaletteIdle
    /\ PrngIdle
    /\ NextIdle
    /\ TemplateIdle
    /\ TileIdle
    /\ RangeIdle
    /\ DistanceIdle
    /\ SearchIdle
    /\ RandomIdle

GetValue(p) ==
    /\ worley # <<>>
    /\ Len(asked) < MaxQueries
    /\ \E answer \in {getValue(worley, p[1], p[2])} :
          /\ worley' = answer.noise
          /\ asked' = Append(asked, [point |-> p, value |-> answer.value])
    /\ UNCHANGED <<freshValue, offWorley>>

WorleyNext == \E p \in Points : GetValue(p)

WorleySpec == WorleyInit /\ [][WorleyNext]_vars

\* C17: every value a used NoiseWorley instance returns for a point is
\* the value a new instance with the same seed and parameters returns
\* for that point.
C17_GetValueIsPure ==
    \A i \in 1..Len(asked) : asked[i].value = freshValue[asked[i].point]

\* The instance has answered two different points with different finite
\* values.
C17_Witness ==
    /\ Len(asked) = 2
    /\ asked[1].point # asked[2].point
    /\ asked[1].value # asked[2].value
    /\ asked[2].value < Infinity

\* C24: two different regions that the search of one getValue call
\* passes to checkRegion, the neighbours with coordinate -1 of region 0
\* among them, never have the same cantorPair value.
C24_CantorPairInjective ==
    \A i \in 1..Len(asked) :
        \A regions \in {regionsChecked(worley, asked[i].point[1],
                                       asked[i].point[2])} :
            \A a, b \in 1..Len(regions) :
                regions[a] # regions[b] =>
                    cantorPair(regions[a][1], regions[a][2])
                        # cantorPair(regions[b][1], regions[b][2])

\* ---------------------------------------------------------------------
\* The distances array on its own: resetDistances, then insertDistance
\* with one squared distance after another.
\* ---------------------------------------------------------------------

\* At most MaxInserts distances are inserted after a resetDistances.
MaxInserts == 4

\* Squared distances in units of 2^-16: whole numbers, and one that is
\* within 0.01 of a whole number.
Distances == {0, Pow2(16), Pow2(16) + 100, Pow2(17), 3 * Pow2(16), Pow2(18)}

DistanceInit ==
    /\ \E n \in 1..3 :
          worley = [NewNoiseWorley(1337, n) EXCEPT
                       !.distances = resetDistances(NewNoiseWorley(1337, n))]
    /\ inserted = <<>>
    /\ asked = <<>>
    /\ freshValue = <<>>
    /\ MainIdle
    /\ PaletteIdle
    /\ PrngIdle
    /\ NextIdle
    /\ TemplateIdle
    /\ TileIdle
    /\ RangeIdle
    /\ SearchIdle
    /\ RandomIdle

offDistance ==
    <<mainVars, paletteVars, prngVars, nextVars, templateVars, tileVars,
      rangeVars, searchVars, randomVars, asked, freshValue>>

\* this.resetDistances()
ResetDistances ==
    /\ inserted # <<>>
    /\ worley' = [worley EXCEPT !.distances = resetDistances(worley)]
    /\ inserted' = <<>>
    /\ UNCHANGED offDistance

\* this.insertDistance(distance)
InsertDistance(distance) ==
    /\ Len(inserted) < MaxInserts
    /\ worley' = [worley EXCEPT !.distances = insertDistance(worley, distance)]
    /\ inserted' = Append(inserted, distance)
    /\ UNCHANGED offDistance

DistanceNext ==
    \/ ResetDistances
    \/ \E distance \in Distances : InsertDistance(distance)

DistanceSpec == DistanceInit /\ [][DistanceNext]_vars

\* The inserted values differ pairwise by 0.01 or more.
InsertedApart ==
    \A a, b \in 1..Len(inserted) :
        a # b => Abs(inserted[a] - inserted[b]) >= 656

\* The value of inserted with q - 1 smaller values in it.
Smallest(q) ==
    CHOOSE v \in {inserted[a] : a \in 1..Len(inserted)} :
        Cardinality({b \in 1..Len(inserted) : inserted[b] < v}) = q - 1

\* C25: after resetDistances and any insertDistance calls the distances
\* array has nClosestPoints entries in non-decreasing order, and when the
\* inserted values differ pairwise by more than the tolerance it holds the
\* smallest of them in order, Infinity in the slots not yet filled.
C25_DistancesAreTheNearest ==
    /\ Len(worley.distances) = worley.nClosestPoints
    /\ \A q \in 1..(Len(worley.distances) - 1) :
          worley.distances[q] <= worley.distances[q + 1]
    /\ InsertedApart =>
          \A q \in 1..worley.nClosestPoints :
              worley.distances[q] =
                  IF q <= Len(inserted) THEN Smallest(q) ELSE Infinity

\* More values than slots have been inserted, all apart, the last one
\* smaller than the first: it has moved the others up and one out.
C25_Witness ==
    /\ Len(inserted) > worley.nClosestPoints
    /\ worley.nClosestPoints >= 2
    /\ InsertedApart
    /\ inserted[Len(inserted)] < inserted[1]

\* ---------------------------------------------------------------------
\* One getValue call, pass by pass: each region the do-while loop checks
\* seeds the generator, and gaussianRand draws pairs until one has
\* w < 1.0.
\* ---------------------------------------------------------------------

\* Seeds of the instance: the number field takes any number.
SearchSeeds == {0, 1, 1337}

\* One pass of the do-while loop of gaussianRand: two nextf() calls.
gaussianPass(rng) ==
    (CHOOSE only \in {(CHOOSE only \in {LET x0 == (2 * (f0.value \div 4)) - Pow2(14)
                  x1 == (2 * (f1.value \div 4)) - Pow2(14)
              IN  [gen |-> f1.gen, x0 |-> x0, w |-> (x0 * x0) + (x1 * x1)] :
              f1 \in {nextf(f0.gen)}} : TRUE) :
         f0 \in {nextf(rng)}} : TRUE)

\* getValue(x, y) up to its do-while loop.
beginSearch(noise, x, y) ==
    [noise   |-> [noise EXCEPT !.currX = x, !.currY = y,
                               !.distances = resetDistances(noise)],
     regionX |-> x \div noise.regionDimensions,
     regionY |-> y \div noise.regionDimensions,
     checkX  |-> x \div noise.regionDimensions,
     checkY  |-> y \div noise.regionDimensions,
     step    |-> 0,
     at      |-> "checkRegion"]

SearchInit ==
    /\ \E seed \in SearchSeeds, n \in ClosestPoints, p \in Points :
          search = beginSearch(NewNoiseWorley(seed, n), p[1], p[2])
    /\ MainIdle
    /\ PaletteIdle
    /\ PrngIdle
    /\ NextIdle
    /\ WorleyIdle
    /\ TemplateIdle
    /\ TileIdle
    /\ RangeIdle
    /\ DistanceIdle
    /\ RandomIdle

offSearch ==
    <<mainVars, paletteVars, prngVars, nextVars, worleyVars, templateVars,
      tileVars, rangeVars, distanceVars, randomVars>>

\* checkRegion(checkX, checkY) up to its gaussianRandAdjusted call.
SeedRegion ==
    /\ search # <<>>
    /\ search.at = "checkRegion"
    /\ search' =
          [search EXCEPT
              !.noise.prng =
                  setSeed(search.noise.prng,
                          search.noise.seed
                              + cantorPair(search.checkX, search.checkY)),
              !.at = "gaussianRand"]
    /\ UNCHANGED offSearch

\* The rest of one pass of getValue's loop once gaussianRand has its pair:
\* the feature points of the region, radiusSample(step++), keepChecking.
afterPair(s) ==
    (CHOOSE only \in {(CHOOSE only \in {
         (CHOOSE only \in {
             IF keepChecking(checked, s.step + 1)
             THEN [s EXCEPT !.noise = checked,
                            !.checkX = s.regionX + adjust(nextCheck.x),
                            !.checkY = s.regionY + adjust(nextCheck.y),
                            !.step = s.step + 1,
                            !.at = "checkRegion"]
             ELSE [s EXCEPT !.noise = checked,
                            !.step = s.step + 1,
                            !.at = "returned"] :
             nextCheck \in {radiusSample(s.step)}} : TRUE) :
         checked \in {featurePoints(
                          [s.noise EXCEPT !.prng = numFeaturePoints.gen],
                          s.checkX, s.checkY, numFeaturePoints, 0)}} : TRUE) :
     numFeaturePoints \in
         {gaussianRandAdjusted(s.noise.prng, s.noise.densityMean,
                               s.noise.densityStdDev)}} : TRUE)

\* One pass of the do-while loop of gaussianRand; when it ends the loop,
\* the rest of the pass of getValue's loop.
DrawPair ==
    /\ search # <<>>
    /\ search.at = "gaussianRand"
    /\ \E drawnPair \in {gaussianPass(search.noise.prng)} :
          search' =
              IF drawnPair.w >= Pow2(28)
              THEN [search EXCEPT !.noise.prng = drawnPair.gen]
              ELSE afterPair(search)
    /\ UNCHANGED offSearch

SearchNext == SeedRegion \/ DrawPair

SearchSpec == SearchInit /\ [][SearchNext]_vars

\* A pass of the do-while loop of gaussianRand that leaves w >= 1.0 and
\* the generator as it was: every later pass is the same pass.
SamePassAgain ==
    /\ search.at = "gaussianRand"
    /\ \E drawnPair \in {gaussianPass(search.noise.prng)} :
          /\ drawnPair.w >= Pow2(28)
          /\ drawnPair.gen = search.noise.prng

\* C26: the region search of getValue ends for every query point, seed
\* and number of closest points: while it is under way, no pass of a loop
\* repeats itself for ever, and once it has returned it has stopped at a
\* ring boundary with the nClosestPoints-th nearest squared distance
\* below the square of the distance already covered.
C26_SearchTerminates ==
    search # <<>> =>
        /\ ~SamePassAgain
        /\ search.at = "returned" => ~keepChecking(search.noise, search.step)

\* ---------------------------------------------------------------------
\* applyPaletteString: the palette string typed into the page, parsed,
\* validated and loaded into the colour editor.  A string is the
\* sequence of its pieces between ';', a piece the sequence of its
\* fields between ','; a text made of characters is the sequence of them.
\* ---------------------------------------------------------------------

Num(n) == [nan |-> FALSE, n |-> n]

NaN == [nan |-> TRUE, n |-> 0]

\* Number(text) for the texts of the model
Number(text) ==
    CASE text = "-1"  -> Num(-1)
      [] text = ""    -> Num(0)
      [] text = "0"   -> Num(0)
      [] text = "16"  -> Num(16)
      [] text = "128" -> Num(128)
      [] text = "255" -> Num(255)
      [] text = "256" -> Num(256)
      [] OTHER        -> NaN

\* a < b and a > b on numbers: false when either is NaN
NumLess(a, b) == ~a.nan /\ ~b.nan /\ a.n < b.n

NumGreater(a, b) == NumLess(b, a)

HexDigits ==
    <<"0", "1", "2", "3", "4", "5", "6", "7", "8", "9",
      "a", "b", "c", "d", "e", "f">>

RECURSIVE ToHex(_)
ToHex(n) ==
    IF n < 16 THEN <<HexDigits[n + 1]>>
    ELSE ToHex(n \div 16) \o <<HexDigits[(n % 16) + 1]>>

\* value.toString(16)
toString16(value) ==
    IF value.nan THEN <<"N", "a", "N">>
    ELSE IF value.n < 0 THEN <<"-">> \o ToHex(-value.n)
    ELSE ToHex(value.n)

\* rgbToHex(r, g, b)
rgbToHex(r, g, b) ==
    LET rhex == toString16(r)
        ghex == toString16(g)
        bhex == toString16(b)
    IN  <<"#">> \o (IF Len(rhex) = 1 THEN <<"0">> \o rhex ELSE rhex)
               \o (IF Len(ghex) = 1 THEN <<"0">> \o ghex ELSE ghex)
               \o (IF Len(bhex) = 1 THEN <<"0">> \o bhex ELSE bhex)

\* isValidHexChar(char)
isValidHexChar(char) ==
    char \in {HexDigits[k] : k \in 1..16} \cup {"A", "B", "C", "D", "E", "F"}

\* isValidHexString(string)
isValidHexString(string) ==
    /\ Len(string) = 7
    /\ \A i \in 2..Len(string) : isValidHexChar(string[i])

\* mode.toUpperCase() for the texts of the model
toUpperCase(mode) ==
    CASE mode = "Solid"      -> "SOLID"
      [] mode = "smooth rgb" -> "SMOOTH RGB"
      [] mode = "Smooth HSV" -> "SMOOTH HSV"
      [] mode = "NONE"       -> "NONE"
      [] mode = "Gradient"   -> "GRADIENT"
      [] OTHER               -> mode

RecognisedModes == {"SOLID", "SMOOTH RGB", "SMOOTH HSV", "NONE"}

\* What applyPaletteString computes from the split descriptor: result,
\* and the arrays it hands to load.
parsePaletteString(pieces) ==
    LET numSegments   == Len(pieces) - 1
        lengthsOk     == \A i \in 1..numSegments : Len(pieces[i]) = 5
        thumbValues   == [i \in 1..(numSegments - 1) |-> Number(pieces[i + 1][1])]
        segmentColors == [i \in 1..numSegments |->
                             rgbToHex(Number(pieces[i][2]), Number(pieces[i][3]),
                                      Number(pieces[i][4]))]
        segmentModes  == [i \in 1..numSegments |-> pieces[i][5]]
    IN  IF numSegments > 0 /\ lengthsOk
        THEN [result |->
                 /\ \A i \in 1..Len(thumbValues) :
                       ~(NumLess(thumbValues[i], Num(0))
                            \/ NumGreater(thumbValues[i], Num(255)))
                 /\ \A i \in 1..Len(segmentColors) :
                       isValidHexString(segmentColors[i])
                 /\ \A i \in 1..Len(segmentModes) :
                       toUpperCase(segmentModes[i]) \in RecognisedModes,
              thumbValues |-> thumbValues, segmentColors |-> segmentColors,
              segmentModes |-> segmentModes]
        ELSE [result |-> FALSE, thumbValues |-> <<>>, segmentColors |-> <<>>,
              segmentModes |-> <<>>]

ThumbTexts == {"-1", "0", "128", "255", "256", "abc"}

ColourTexts ==
    {<<"0", "0", "0">>, <<"255", "128", "16">>, <<"256", "0", "0">>,
     <<"-1", "0", "0">>, <<"0", "abc", "0">>}

ModeTexts == {"Solid", "smooth rgb", "NONE", "Gradient"}

\* Pieces of five fields, of four and of six.
Pieces ==
    {<<t, c[1], c[2], c[3], m>> : t \in ThumbTexts, c \in ColourTexts,
                                  m \in ModeTexts}
        \cup {<<"128", "0", "0", "0">>, <<"128", "0", "0", "0", "Solid", "">>}

\* The first piece starts at 0.
FirstPieces == {p \in Pieces : p[1] \in {"0", "128"}}

\* What follows the last ';': nothing, or a piece that was not closed.
Tails == {<<"">>, <<"128", "255", "255", "255", "Solid">>}

TemplateDescriptors ==
    {<<tail>> : tail \in Tails}
        \cup {<<first, tail>> : first \in FirstPieces, tail \in Tails}
        \cup {<<first, second, tail>> :
                 first \in FirstPieces, second \in Pieces, tail \in Tails}

TemplateInit ==
    /\ \E values \in {<<>>, <<Num(64)>>, <<Num(32), Num(200)>>} :
          /\ thumbs = load(values, LoadColors, LoadModes).thumbs
          /\ segments = load(values, LoadColors, LoadModes).segments
          /\ peak = Len(values) + 1
    /\ lastCall = NoCall
    /\ template = NoTemplate
    /\ EngineIdle
    /\ NormIdle
    /\ PaletteIdle
    /\ PrngIdle
    /\ NextIdle
    /\ WorleyIdle
    /\ TileIdle
    /\ RangeIdle
    /\ DistanceIdle
    /\ SearchIdle
    /\ RandomIdle

\* applyPaletteString() with the text of #color_templates split at ';'
\* and ','.
applyPaletteString(pieces) ==
    /\ template = NoTemplate
    /\ LET parsed == parsePaletteString(pieces)
           loaded == load(parsed.thumbValues, parsed.segmentColors,
                          parsed.segmentModes)
       IN  IF parsed.result
           THEN /\ thumbs' = loaded.thumbs
                /\ segments' = loaded.segments
                /\ template' = [descriptor |-> pieces,
                                border |-> "1px solid transparent",
                                before |-> <<thumbs, segments>>]
           ELSE /\ template' = [descriptor |-> pieces,
                                border |-> "1px solid #AA3333",
                                before |-> <<thumbs, segments>>]
                /\ UNCHANGED <<thumbs, segments>>
    /\ UNCHANGED <<lastCall, peak, offTemplate>>

TemplateNext == \E pieces \in TemplateDescriptors : applyPaletteString(pieces)

TemplateSpec == TemplateInit /\ [][TemplateNext]_vars

\* The records of a descriptor: its pieces closed by ';'.
RecordsOf(pieces) == SubSeq(pieces, 1, Len(pieces) - 1)

\* The checks of the claim on a descriptor.
EveryRecordValid(pieces) ==
    \A i \in 1..Len(RecordsOf(pieces)) :
        LET record == pieces[i]
        IN  /\ Len(record) = 5
            /\ i > 1 => /\ ~Number(record[1]).nan
                        /\ Number(record[1]).n \in 0..255
            /\ isValidHexString(rgbToHex(Number(record[2]), Number(record[3]),
                                         Number(record[4])))
            /\ toUpperCase(record[5]) \in RecognisedModes

Committed == template.border = "1px solid transparent"

\* C18: applyPaletteString loads the editor only when every record of the
\* descriptor has 5 fields, a thumb value in [0, 255], a valid colour and a
\* recognised mode; otherwise thumbs and segments are as before the call.
C18_CommitsOnlyValidDescriptors ==
    template # NoTemplate =>
        /\ Committed => EveryRecordValid(template.descriptor)
        /\ ~EveryRecordValid(template.descriptor) =>
               <<thumbs, segments>> = template.before

\* ---------------------------------------------------------------------
\* The noise pass on a surface of any size.  Positions are kept
\* multiplied by NumWorkersSide: image.width / numWorkersSide and its
\* multiples are then integers, and with NumWorkersSide = 2 the numbers
\* of the code are exactly these halves.  Image data is kept by byte; a
\* colour byte holds the position getPixel was called with.
\* ---------------------------------------------------------------------

MaxSide == 5

OldByte == <<>>

AlphaByte == <<255>>

\* The values  for(var v = from; v < to; ++v)  takes.
LoopValues(from, to) ==
    {v \in from..(to - 1) : (v - from) % NumWorkersSide = 0}

\* xyToIndex(x, y), times NumWorkersSide
xyToIndex(x, y, w) == ((y * w) + x) * 4

\* The positions of the loops of generate whose setPixelUniform writes
\* byte j: index + 0 .. index + 3 for an integer index.
ByteWrites(b, w, j) ==
    {c \in LoopValues(b.startX, b.endX) \X LoopValues(b.startY, b.endY) :
        /\ xyToIndex(c[1], c[2], w) % NumWorkersSide = 0
        /\ j - (xyToIndex(c[1], c[2], w) \div NumWorkersSide) \in 0..3}

LastByteWrite(b, w, j) ==
    CHOOSE c \in ByteWrites(b, w, j) :
        \A d \in ByteWrites(b, w, j) :
            d[1] < c[1] \/ (d[1] = c[1] /\ d[2] <= c[2])

\* Noise.generate on the bytes of imageData.data
generateBytes(imageData, w, b) ==
    [j \in DOMAIN imageData |->
        IF ByteWrites(b, w, j) = {} THEN imageData[j]
        ELSE LET c == LastByteWrite(b, w, j)
             IN  IF j - (xyToIndex(c[1], c[2], w) \div NumWorkersSide) = 3
                 THEN AlphaByte ELSE c]

\* The dirty rectangle of putImageData: its arguments are converted to
\* integers by truncation.
DirtyRect(b) ==
    [x |-> b.startX \div NumWorkersSide,
     y |-> b.startY \div NumWorkersSide,
     width  |-> (b.endX - b.startX) \div NumWorkersSide,
     height |-> (b.endY - b.startY) \div NumWorkersSide]

InDirtyRect(b, px, py) ==
    LET dirty == DirtyRect(b)
    IN  /\ dirty.x <= px /\ px < dirty.x + dirty.width
        /\ dirty.y <= py /\ py < dirty.y + dirty.height

\* Surface.drawImageRect on the bytes of the canvas
drawRectBytes(cv, data, w, b) ==
    [j \in DOMAIN cv |->
        IF InDirtyRect(b, (j \div 4) % w, (j \div 4) \div w)
        THEN data[j] ELSE cv[j]]

TileInit ==
    /\ \E w \in 1..MaxSide, h \in 1..MaxSide :
          tileSurface = [width |-> w, height |-> h,
                         canvas |-> [j \in 0..(4 * w * h - 1) |-> OldByte]]
    /\ tileWorkers = [i \in WorkerIds |->
                         [state |-> "none", bounds |-> NoBounds, image |-> <<>>]]
    /\ MainIdle
    /\ PaletteIdle
    /\ PrngIdle
    /\ NextIdle
    /\ WorleyIdle
    /\ TemplateIdle
    /\ RangeIdle
    /\ DistanceIdle
    /\ SearchIdle
    /\ RandomIdle

\* generateNoiseMultithreaded(surface, noise, false, params, 2, endCallback)
\* with triggerNoiseWorkers: every worker is posted its bounds and a copy
\* of the image.
generateNoiseMultithreaded ==
    /\ \A i \in WorkerIds : tileWorkers[i].state = "none"
    /\ tileWorkers' =
          [i \in WorkerIds |->
              [state  |-> "posted",
               bounds |-> TileOf(i, tileSurface.width, tileSurface.height),
               image  |-> [j \in DOMAIN tileSurface.canvas |-> OldByte]]]
    /\ UNCHANGED <<tileSurface, offTile>>

\* The worker: noise.generate(image, startX, endX, startY, endY), then
\* the image posted back.
TileWorkerRun(i) ==
    /\ tileWorkers[i].state = "posted"
    /\ tileWorkers' =
          [tileWorkers EXCEPT
              ![i].state = "done",
              ![i].image = generateBytes(tileWorkers[i].image,
                                         tileSurface.width,
                                         tileWorkers[i].bounds)]
    /\ UNCHANGED <<tileSurface, offTile>>

\* workers[index].onmessage on the image: surface.drawImageRect.
TileDraw(i) ==
    /\ tileWorkers[i].state = "done"
    /\ tileSurface' =
          [tileSurface EXCEPT
              !.canvas = drawRectBytes(tileSurface.canvas,
                                       tileWorkers[i].image,
                                       tileSurface.width,
                                       tileWorkers[i].bounds)]
    /\ tileWorkers' = [tileWorkers EXCEPT ![i].state = "drawn"]
    /\ UNCHANGED offTile

TileNext ==
    \/ generateNoiseMultithreaded
    \/ \E i \in WorkerIds : TileWorkerRun(i)
    \/ \E i \in WorkerIds : TileDraw(i)

TileSpec == TileInit /\ [][TileNext]_vars

\* floor(width / gridSide), floor(height / gridSide)
FloorStep(side) == side \div NumWorkersSide

\* The bounds are integers and the tile is FloorStep wide and high.
WholeTile(b) ==
    /\ \A v \in {b.startX, b.endX, b.startY, b.endY} : v % NumWorkersSide = 0
    /\ b.endX - b.startX = NumWorkersSide * FloorStep(tileSurface.width)
    /\ b.endY - b.startY = NumWorkersSide * FloorStep(tileSurface.height)

\* The pixels the bounds of a tile cover.
CoveredPixels(b) ==
    {c \in (0..(tileSurface.width - 1)) \X (0..(tileSurface.height - 1)) :
        /\ b.startX <= NumWorkersSide * c[1] /\ NumWorkersSide * c[1] < b.endX
        /\ b.startY <= NumWorkersSide * c[2] /\ NumWorkersSide * c[2] < b.endY}

\* The canvas holds at pixel (px, py) the colour of (px, py).
PixelWritten(px, py) ==
    LET at    == 4 * ((py * tileSurface.width) + px)
        color == <<NumWorkersSide * px, NumWorkersSide * py>>
    IN  /\ tileSurface.canvas[at] = color
        /\ tileSurface.canvas[at + 1] = color
        /\ tileSurface.canvas[at + 2] = color
        /\ tileSurface.canvas[at + 3] = AlphaByte

Dispatched == \A i \in WorkerIds : tileWorkers[i].state # "none"

AllDrawn == \A i \in WorkerIds : tileWorkers[i].state = "drawn"

\* C19: on a surface whose width or height is not a multiple of the grid
\* side every tile has integer bounds, floor(width / side) wide and
\* floor(height / side) high, the tiles are pairwise disjoint, and when
\* all are drawn the pixels not written are exactly those of the trailing
\* columns and rows.
C19_UnevenTilesAreFloored ==
    (/\ Dispatched
     /\ \/ tileSurface.width % NumWorkersSide # 0
        \/ tileSurface.height % NumWorkersSide # 0) =>
        /\ \A i \in WorkerIds : WholeTile(tileWorkers[i].bounds)
        /\ \A i, k \in WorkerIds :
              i # k => CoveredPixels(tileWorkers[i].bounds)
                           \cap CoveredPixels(tileWorkers[k].bounds) = {}
        /\ AllDrawn =>
              \A px \in 0..(tileSurface.width - 1),
                 py \in 0..(tileSurface.height - 1) :
                    PixelWritten(px, py) <=>
                        /\ px < NumWorkersSide * FloorStep(tileSurface.width)
                        /\ py < NumWorkersSide * FloorStep(tileSurface.height)

\* ---------------------------------------------------------------------
\* A UIMultiRange built on any range: build reads min and max from the
\* element, data-rangemin and data-rangemax.
\* ---------------------------------------------------------------------

RangeMins == {0, 2, 4}

RangeMaxs == {8, 16}

RangeInit ==
    /\ \E min \in RangeMins, max \in RangeMaxs :
          editorRange = [min |-> min, max |-> max]
    /\ \E color \in {LoadColors[p] : p \in 1..Len(LoadColors)},
          mode \in {LoadModes[p] : p \in 1..Len(LoadModes)} :
          /\ thumbs = load(<<>>, <<color>>, <<mode>>).thumbs
          /\ segments = load(<<>>, <<color>>, <<mode>>).segments
    /\ peak = 1
    /\ lastCall = NoCall
    /\ EngineIdle
    /\ NormIdle
    /\ PaletteIdle
    /\ PrngIdle
    /\ NextIdle
    /\ WorleyIdle
    /\ TemplateIdle
    /\ TileIdle
    /\ DistanceIdle
    /\ SearchIdle
    /\ RandomIdle

RangeNext ==
    \/ \E p \in 1..Len(segments) :
          splitSegmentIn(p, editorRange.min, editorRange.max)
    \/ \E p \in 1..Len(segments) : removeSegment(p)

RangeSpec == RangeInit /\ [][RangeNext]_vars

\* C20: splitSegment on an editor with exactly one segment and no thumbs
\* adds exactly one thumb, whose value is min + (max - min) / 2, and
\* appends exactly one segment, whose colour and mode are those of the
\* original segment.
C20_SplitOfOnlySegment ==
    [][(/\ Len(segments) = 1
        /\ Len(thumbs) = 0
        /\ lastCall'.op = "split") =>
           /\ Len(thumbs') = 1
           /\ 2 * thumbs'[1].value = 2 * editorRange.min
                                       + (editorRange.max - editorRange.min)
           /\ Len(segments') = 2
           /\ segments'[1] = segments[1]
           /\ segments'[2].color = segments[1].color
           /\ segments'[2].mode = segments[1].mode]_vars
====
